---- MODULE Spec2Model ----
(***************************************************************************)
(* A model of code-daily: the quest store, its lifecycle, priorities and   *)
(* synchronisation from GitHub issues and TODO comments (quest_manager.py  *)
(* over storage.py), also for two requests served at the same time; the    *)
(* ideas table and its synchronisation from IDEAS.md (ideas.py); the       *)
(* commit parser, the commits and achievements tables and the dashboard    *)
(* computation; and the streak, stats and history calculators.             *)
(*                                                                         *)
(* Python values are modelled as follows.  A str is a TLA+ string; the     *)
(* value None is the string None below; a dict is a record, and a key the  *)
(* dict does not carry is a field the record does not have.  A date is the *)
(* text YYYY-MM-DD, read and written as the calendar section defines.  The *)
(* created_at column of quests is carried only by the quests handed to the *)
(* priority operations, the one place that reads it.                       *)
(***************************************************************************)
EXTENDS Integers, Sequences, FiniteSets, TLC

VARIABLES
    quests,     \* rows of table quests, in insertion (id) order
    ideas,      \* rows of table ideas, in insertion (id) order
    ret,        \* what the last quest operation returned
    prev,       \* what the quest operation before it returned
    today,      \* the reference date handed to a calculator
    events,     \* the commit events handed to a calculator
    days,       \* the window length handed to calculate_history
    result,     \* what the last call of a calculator or store operation returned
    commits,    \* rows of table commits, in insertion (id) order
    achievements \* rows of table achievements, in insertion order

vars == <<quests, ideas, ret, prev, today, events, days, result, commits,
          achievements>>

(***************************************************************************)
(* Python values                                                           *)
(***************************************************************************)
None == "<None>"

\* bool(v) for a str-or-None value
Truthy(v) == v # None /\ v # ""

\* d.get(k, default)
Get(d, k, default) == IF k \in DOMAIN d THEN d[k] ELSE default

RECURSIVE Rep(_, _)
Rep(s, n) == IF n = 0 THEN "" ELSE s \o Rep(s, n - 1)

\* the least i with s[i .. i+len(sub)-1] = sub, 0 when there is none
RECURSIVE FindFrom(_, _, _)
FindFrom(s, sub, i) ==
    IF i + Len(sub) - 1 > Len(s) THEN 0
    ELSE IF SubSeq(s, i, i + Len(sub) - 1) = sub THEN i
    ELSE FindFrom(s, sub, i + 1)

\* sub in s
Contains(s, sub) == FindFrom(s, sub, 1) # 0

\* s.split(sep), sep non-empty
RECURSIVE Split(_, _)
Split(s, sep) ==
    LET i == FindFrom(s, sep, 1)
    IN  IF i = 0 THEN <<s>>
        ELSE <<SubSeq(s, 1, i - 1)>> \o Split(SubSeq(s, i + Len(sep), Len(s)), sep)

(***************************************************************************)
(* storage.py: the quests and ideas tables                                 *)
(***************************************************************************)
\* INSERT INTO quests: status takes the column default 'pending', the id is
\* the next AUTOINCREMENT value.  Returns the table after the insert.
create_quest(qs, title, source, source_ref, description) ==
    Append(qs, [id |-> Len(qs) + 1, source |-> source, source_ref |-> source_ref,
                title |-> title, description |-> description,
                status |-> "pending"])

QuestIndex_Clamped(qs, quest_id) ==
    IF \E i \in 1..Len(qs) : qs[i].id = quest_id
    THEN CHOOSE i \in 1..Len(qs) : qs[i].id = quest_id
    ELSE Len(qs)

\* SELECT * FROM quests WHERE id = ?: the row's index, 0 when there is none
QuestIndex(qs, quest_id) ==
    IF \E i \in 1..Len(qs) : qs[i].id = quest_id
    THEN CHOOSE i \in 1..Len(qs) : qs[i].id = quest_id
    ELSE 0

update_quest_status_AllRows(qs, quest_id, status) ==
    [i \in 1..Len(qs) |-> [qs[i] EXCEPT !.status = status]]

\* UPDATE quests SET status = ? WHERE id = ?
update_quest_status(qs, quest_id, status) ==
    [i \in 1..Len(qs) |->
        IF qs[i].id = quest_id THEN [qs[i] EXCEPT !.status = status] ELSE qs[i]]

\* whether a quest with this source and source_ref is stored
quest_exists_by_source_ref(qs, source, source_ref) ==
    \E i \in 1..Len(qs) : qs[i].source = source /\ qs[i].source_ref = source_ref

\* INSERT INTO ideas (content): status takes the column default 'active'
create_idea(is, content) ==
    Append(is, [id |-> Len(is) + 1, content |-> content, status |-> "active"])

\* SELECT * FROM ideas WHERE id = ?: the row's index, 0 when there is none
IdeaIndex(is, idea_id) ==
    IF \E i \in 1..Len(is) : is[i].id = idea_id
    THEN CHOOSE i \in 1..Len(is) : is[i].id = idea_id
    ELSE 0

\* UPDATE ideas SET status = ? WHERE id = ?
update_idea_status(is, idea_id, status) ==
    [i \in 1..Len(is) |->
        IF is[i].id = idea_id THEN [is[i] EXCEPT !.status = status] ELSE is[i]]

\* SELECT * FROM ideas ORDER BY created_at DESC: newest first (ideas are
\* taken to be created at different seconds)
get_ideas(is) == [i \in 1..Len(is) |-> is[Len(is) + 1 - i]]

(***************************************************************************)
(* ideas.py: sync_ideas_to_db                                              *)
(***************************************************************************)
\* the index in db_ideas of the first idea with this content, 0 when the
\* content is not in existing_contents
FirstWithContent(db_ideas, content) ==
    IF \E j \in 1..Len(db_ideas) : db_ideas[j].content = content
    THEN CHOOSE j \in 1..Len(db_ideas) :
            /\ db_ideas[j].content = content
            /\ \A h \in 1..(j - 1) : db_ideas[h].content # content
    ELSE 0

\* one pass of the loop over file_ideas; db_ideas is the snapshot read before
\* the loop, acc is [is, added, updated]
SyncIdeaStep(acc, db_ideas, file_idea) ==
    LET j == FirstWithContent(db_ideas, file_idea.content)
        db_idea == db_ideas[j]
    IN  IF j = 0
        THEN LET created == create_idea(acc.is, file_idea.content)
             IN  [is |-> IF file_idea.completed
                         THEN update_idea_status(created, Len(created), "completed")
                         ELSE created,
                  added |-> acc.added + 1, updated |-> acc.updated]
        ELSE IF file_idea.completed /\ db_idea.status # "completed"
             THEN [is |-> update_idea_status(acc.is, db_idea.id, "completed"),
                   added |-> acc.added, updated |-> acc.updated + 1]
             ELSE acc

RECURSIVE SyncIdeasLoop(_, _, _, _)
SyncIdeasLoop(acc, db_ideas, file_ideas, k) ==
    IF k > Len(file_ideas) THEN acc
    ELSE SyncIdeasLoop(SyncIdeaStep(acc, db_ideas, file_ideas[k]), db_ideas, file_ideas, k + 1)

\* sync_ideas_to_db over the ideas read_ideas found in the file
sync_ideas_to_db(is, file_ideas) ==
    SyncIdeasLoop([is |-> is, added |-> 0, updated |-> 0], get_ideas(is), file_ideas, 1)

(***************************************************************************)
(* The issues and TODO comments the synchronisations are fed               *)
(***************************************************************************)
Url1 == "https://github.com/user/myrepo/issues/1"
Url2 == "https://tracker.example.org/42"
LongText == Rep("x", 250)

\* issue dicts as the GitHub client returns them: two issues under Url1 that
\* differ in title and body, a pull request under Url2, an item without
\* html_url
FewIssues ==
    { [title |-> "Fix login bug", html_url |-> Url1,
       body |-> "The login button doesn't work"],
      [title |-> "Fix login", html_url |-> Url1, body |-> LongText],
      [title |-> "Pull request", html_url |-> Url2, body |-> "This is a PR",
       pull_request |-> "https://api.github.com/repos/user/repo/pulls/2"],
      [title |-> "No url"] }

\* and also an issue under Url2 without title and with a null body, and an
\* item with an empty html_url
IssuePool ==
    FewIssues \cup
    { [html_url |-> Url2, body |-> None],
      [title |-> "Empty url", html_url |-> ""] }

\* TodoComment objects as the scanner returns them: two comments at app.py:10
\* that differ in type and content
FewTodos ==
    { [file_path |-> "app.py", line_number |-> 10, comment_type |-> "TODO",
       content |-> "Original content"],
      [file_path |-> "app.py", line_number |-> 10, comment_type |-> "FIXME",
       content |-> "Updated content"] }

\* and also a long one at app.py:11
TodoPool ==
    FewTodos \cup
    { [file_path |-> "app.py", line_number |-> 11, comment_type |-> "HACK",
       content |-> LongText] }

\* the html_url values of the pool
PoolUrls ==
    { issue.html_url : issue \in { i \in IssuePool : "html_url" \in DOMAIN i } }

(***************************************************************************)
(* quest_manager.py: lifecycle and synchronisation                         *)
(***************************************************************************)
\* text[:197] + "..." when text is longer than 200 characters
Truncate200(text) ==
    IF Len(text) > 200 THEN SubSeq(text, 1, 197) \o "..." ELSE text

\* "owner/repo" from https://github.com/owner/repo/issues/123, else ""
RepoNameOf(issue_url) ==
    IF Contains(issue_url, "github.com/")
    THEN LET parts == Split(Split(issue_url, "github.com/")[2], "/")
         IN  IF Len(parts) >= 2 THEN parts[1] \o "/" \o parts[2] ELSE ""
    ELSE ""

\* RepoNameOf, evaluated once for each url of the pool
RepoName == [issue_url \in PoolUrls |-> RepoNameOf(issue_url)]

\* the title and description sync_github_issues stores for an issue
IssueTitle(issue) ==
    LET repo_name == RepoName[issue.html_url]
        title == Get(issue, "title", "Untitled issue")
    IN  IF repo_name # "" THEN "[" \o repo_name \o "] " \o title ELSE title

IssueDescription(issue) ==
    LET body == Get(issue, "body", None)
        description == Truncate200(IF Truthy(body) THEN body ELSE "")
    IN  IF description # "" THEN description ELSE None

\* GithubStep with the duplicate looked up by title instead of by html_url
GithubStep_ByTitle(acc, issue) ==
    IF "pull_request" \in DOMAIN issue THEN acc
    ELSE IF ~Truthy(Get(issue, "html_url", "")) THEN acc
    ELSE IF \E i \in 1..Len(acc.qs) : acc.qs[i].title = IssueTitle(issue)
         THEN [acc EXCEPT !.skipped = @ + 1]
    ELSE [qs |-> create_quest(acc.qs, IssueTitle(issue), "github_issue",
                              issue.html_url, IssueDescription(issue)),
          added |-> acc.added + 1, skipped |-> acc.skipped]

\* GithubStep without the pull_request filter
GithubStep_NoPrFilter(acc, issue) ==
    IF ~Truthy(Get(issue, "html_url", "")) THEN acc
    ELSE IF quest_exists_by_source_ref(acc.qs, "github_issue", issue.html_url)
         THEN [acc EXCEPT !.skipped = @ + 1]
    ELSE [qs |-> create_quest(acc.qs, IssueTitle(issue), "github_issue",
                              issue.html_url, IssueDescription(issue)),
          added |-> acc.added + 1, skipped |-> acc.skipped]

\* one iteration of the loop of sync_github_issues; acc = [qs, added, skipped]
GithubStep(acc, issue) ==
    IF "pull_request" \in DOMAIN issue THEN acc
    ELSE IF ~Truthy(Get(issue, "html_url", "")) THEN acc
    ELSE IF quest_exists_by_source_ref(acc.qs, "github_issue", issue.html_url)
         THEN [acc EXCEPT !.skipped = @ + 1]
    ELSE [qs |-> create_quest(acc.qs, IssueTitle(issue), "github_issue",
                              issue.html_url, IssueDescription(issue)),
          added |-> acc.added + 1, skipped |-> acc.skipped]

RECURSIVE GithubLoop(_, _)
GithubLoop(acc, issues) ==
    IF issues = <<>> THEN acc
    ELSE GithubLoop(GithubStep(acc, Head(issues)), Tail(issues))

sync_github_issues(qs, issues) ==
    GithubLoop([qs |-> qs, added |-> 0, skipped |-> 0], issues)

\* TodoComment.source_ref: "file:line"
TodoSourceRef(todo) == todo.file_path \o ":" \o ToString(todo.line_number)

\* TodoStep with the duplicate looked up among the pending quests only
TodoStep_PendingOnly(acc, todo) ==
    IF \E i \in 1..Len(acc.qs) :
          /\ acc.qs[i].source = "todo_scan"
          /\ acc.qs[i].source_ref = TodoSourceRef(todo)
          /\ acc.qs[i].status = "pending"
    THEN [acc EXCEPT !.skipped = @ + 1]
    ELSE [qs |-> create_quest(acc.qs,
                    Truncate200("[" \o todo.comment_type \o "] " \o todo.content),
                    "todo_scan", TodoSourceRef(todo), None),
          added |-> acc.added + 1, skipped |-> acc.skipped]

\* one iteration of the loop of sync_todo_comments
TodoStep(acc, todo) ==
    IF quest_exists_by_source_ref(acc.qs, "todo_scan", TodoSourceRef(todo))
    THEN [acc EXCEPT !.skipped = @ + 1]
    ELSE [qs |-> create_quest(acc.qs,
                    Truncate200("[" \o todo.comment_type \o "] " \o todo.content),
                    "todo_scan", TodoSourceRef(todo), None),
          added |-> acc.added + 1, skipped |-> acc.skipped]

RECURSIVE TodoLoop(_, _)
TodoLoop(acc, todos) ==
    IF todos = <<>> THEN acc
    ELSE TodoLoop(TodoStep(acc, Head(todos)), Tail(todos))

sync_todo_comments(qs, todos) ==
    TodoLoop([qs |-> qs, added |-> 0, skipped |-> 0], todos)

\* a skip that archives whatever the action
SkipStatus_AlwaysArchived(action) == "archived"

\* the status skip_quest gives for an action
SkipStatus(action) == IF action = "archive" THEN "archived" ELSE "skipped"

\* the content of the idea skip_quest saves for a quest
IdeaContent_TitleOnly(quest) == quest.title

IdeaContent(quest) ==
    IF Truthy(quest.description)
    THEN quest.title \o " - " \o quest.description
    ELSE quest.title

(***************************************************************************)
(* The quest store as a state machine: the inputs the operations are given *)
(***************************************************************************)
MaxIssues == 2      \* longest issue list handed to sync_github_issues
MaxTodos == 2       \* longest todo list handed to sync_todo_comments
MaxQuests == 4      \* most rows of table quests
MaxIdeas == 1       \* most rows of table ideas

SeqsUpTo(S, n) == UNION { [1..k -> S] : k \in 0..n }

IssueLists == SeqsUpTo(IssuePool, MaxIssues)
TodoLists == SeqsUpTo(TodoPool, MaxTodos)
FewIssueLists == SeqsUpTo(FewIssues, MaxIssues)
FewTodoLists == SeqsUpTo(FewTodos, MaxTodos)

\* ret: the operation; the number of items it was given, how many of them
\* carried a pull_request key and how many carried none and a non-empty
\* reference; the counts a synchronisation returned; whether a lifecycle
\* operation found its quest
Ret(op, n, prs, plain, added, skipped, ok) ==
    [op |-> op, n |-> n, prs |-> prs, plain |-> plain, added |-> added,
     skipped |-> skipped, ok |-> ok]

NoRet == Ret("none", 0, 0, 0, 0, 0, TRUE)

\* an issue sync_github_issues has a reference for
Ingestible(issue) ==
    "pull_request" \notin DOMAIN issue /\ Truthy(Get(issue, "html_url", ""))

PlainIssues(issues) ==
    Cardinality({ i \in 1..Len(issues) : Ingestible(issues[i]) })

PullRequests(issues) ==
    Cardinality({ i \in 1..Len(issues) : "pull_request" \in DOMAIN issues[i] })

\* tables commits and achievements are empty
StoreIdle == commits = <<>> /\ achievements = <<>>

\* the calculators' variables, idle while the quest store runs
CalcIdle ==
    /\ today = 0
    /\ events = <<>>
    /\ days = 0
    /\ result = [op |-> "none"]

InitQuest ==
    /\ quests = <<>>
    /\ ideas = <<>>
    /\ ret = NoRet
    /\ prev = NoRet
    /\ CalcIdle
    /\ StoreIdle

SyncGithubIssues(issues) ==
    LET r == sync_github_issues(quests, issues)
    IN  /\ Len(r.qs) <= MaxQuests
        /\ quests' = r.qs
        /\ ret' = Ret("sync_github_issues", Len(issues), PullRequests(issues),
                       PlainIssues(issues), r.added, r.skipped, TRUE)
        /\ UNCHANGED <<ideas, today, events, days, result,
                     commits, achievements>>

SyncTodoComments(todos) ==
    LET r == sync_todo_comments(quests, todos)
    IN  /\ Len(r.qs) <= MaxQuests
        /\ quests' = r.qs
        /\ ret' = Ret("sync_todo_comments", Len(todos), 0, Len(todos),
                       r.added, r.skipped, TRUE)
        /\ UNCHANGED <<ideas, today, events, days, result,
                     commits, achievements>>

\* accept_quest: ok is whether a quest (and not None) is returned
AcceptQuest(quest_id) ==
    /\ quests' = update_quest_status(quests, quest_id, "active")
    /\ ret' = Ret("accept_quest", 0, 0, 0, 0, 0, QuestIndex(quests, quest_id) # 0)
    /\ UNCHANGED <<ideas, today, events, days, result,
                     commits, achievements>>

CompleteQuest(quest_id) ==
    /\ quests' = update_quest_status(quests, quest_id, "completed")
    /\ ret' = Ret("complete_quest", 0, 0, 0, 0, 0, QuestIndex(quests, quest_id) # 0)
    /\ UNCHANGED <<ideas, today, events, days, result,
                     commits, achievements>>

\* skip_quest: ok is the success field of the returned dict, which has an
\* error key when the quest is missing and an idea key when an idea was saved
SkipQuest(quest_id, action, save_as_idea) ==
    LET i == QuestIndex(quests, quest_id)
    IN  IF i = 0
        THEN /\ ret' = Ret("skip_quest", 0, 0, 0, 0, 0, FALSE) @@
                          [error |-> "Quest not found"]
             /\ UNCHANGED <<quests, ideas, today, events, days, result,
                     commits, achievements>>
        ELSE /\ quests' = update_quest_status(quests, quest_id, SkipStatus(action))
             /\ ideas' = IF save_as_idea
                         THEN create_idea(ideas, IdeaContent(quests[i]))
                         ELSE ideas
             /\ ret' = IF save_as_idea
                       THEN Ret("skip_quest", 0, 0, 0, 0, 0, TRUE) @@
                            [idea |-> ideas'[Len(ideas')]]
                       ELSE Ret("skip_quest", 0, 0, 0, 0, 0, TRUE)
             /\ UNCHANGED <<today, events, days, result,
                     commits, achievements>>

\* every operation, on a store fed from the small pools; a quest id is that
\* of a stored quest or the first id not in use
NextQuest ==
    /\ \/ \E issues \in FewIssueLists :
             SyncGithubIssues(issues) /\ UNCHANGED prev
       \/ \E todos \in FewTodoLists :
             SyncTodoComments(todos) /\ UNCHANGED prev
       \/ \E quest_id \in 1..(Len(quests) + 1) :
             AcceptQuest(quest_id) /\ UNCHANGED prev
       \/ \E quest_id \in 1..(Len(quests) + 1) :
             CompleteQuest(quest_id) /\ UNCHANGED prev
       \/ \E quest_id \in 1..(Len(quests) + 1), action \in {"archive", "skip"},
             save_as_idea \in BOOLEAN :
             SkipQuest(quest_id, action, save_as_idea) /\ UNCHANGED prev
    /\ Len(ideas') <= MaxIdeas

SpecQuest == InitQuest /\ [][NextQuest]_vars

\* add_manual_quest(title, description)
AddManualQuest(title, description) ==
    /\ Len(quests) < MaxQuests
    /\ quests' = create_quest(quests, title, "manual", None, description)
    /\ ret' = Ret("add_manual_quest", 0, 0, 0, 0, 0, TRUE)
    /\ UNCHANGED <<ideas, today, events, days, result, commits, achievements>>

\* promote_idea_to_quest: ok is whether a quest (and not None) is returned
PromoteIdeaToQuest(idea_id) ==
    LET i == IdeaIndex(ideas, idea_id)
    IN  IF i = 0
        THEN /\ ret' = Ret("promote_idea_to_quest", 0, 0, 0, 0, 0, FALSE)
             /\ UNCHANGED <<quests, ideas, today, events, days, result,
                            commits, achievements>>
        ELSE /\ Len(quests) < MaxQuests
             /\ quests' = create_quest(quests, ideas[i].content, "ideas_md",
                                       "idea:" \o ToString(idea_id), None)
             /\ ideas' = update_idea_status(ideas, idea_id, "promoted")
             /\ ret' = Ret("promote_idea_to_quest", 0, 0, 0, 0, 0, TRUE)
             /\ UNCHANGED <<today, events, days, result, commits, achievements>>

MaxLifecycleQuests == 2     \* most quests of a lifecycle run
MaxSavedIdeas == 2          \* most ideas of a lifecycle run

\* the lifecycle of quests: every operation that creates a quest or sets its
\* status, each with one input of its kind; the first quest is the one that
\* may be saved as an idea
NextLifecycle ==
    /\ UNCHANGED prev
    /\ \/ SyncGithubIssues(<<[title |-> "Fix login bug", html_url |-> Url1,
                              body |-> "The login button doesn't work"]>>)
       \/ SyncTodoComments(<<[file_path |-> "app.py", line_number |-> 10,
                              comment_type |-> "TODO",
                              content |-> "Original content"]>>)
       \/ AddManualQuest("Write the docs", None)
       \/ \E idea_id \in 1..(Len(ideas) + 1) : PromoteIdeaToQuest(idea_id)
       \/ \E quest_id \in 1..(Len(quests) + 1) : AcceptQuest(quest_id)
       \/ \E quest_id \in 1..(Len(quests) + 1) : CompleteQuest(quest_id)
       \/ \E quest_id \in 1..(Len(quests) + 1),
             action \in {"archive", "skip", "later"} :
             SkipQuest(quest_id, action, FALSE)
       \/ SkipQuest(1, "archive", TRUE)
    /\ Len(quests') <= MaxLifecycleQuests
    /\ Len(ideas') <= MaxSavedIdeas

SpecLifecycle == InitQuest /\ [][NextLifecycle]_vars

(***************************************************************************)
(* Ideas and the quests promoted from them                                 *)
(***************************************************************************)
MaxFileIdeas == 1       \* most checkbox lines of IDEAS.md

\* what read_ideas returns for a checkbox line: the content and whether the
\* box is ticked
FileIdeaPool ==
    { [content |-> "Build feature X", completed |-> b, date |-> "2026-01-01"] :
        b \in BOOLEAN }

FileIdeaLists == SeqsUpTo(FileIdeaPool, MaxFileIdeas)

\* storage.create_idea(content), as the ideas endpoint calls it
CreateIdea(content) ==
    /\ Len(ideas) < MaxIdeas
    /\ ideas' = create_idea(ideas, content)
    /\ ret' = Ret("create_idea", 0, 0, 0, 0, 0, TRUE)
    /\ UNCHANGED <<quests, today, events, days, result, commits, achievements>>

\* sync_ideas_to_db: the returned dict carries added and updated
SyncIdeasToDb(file_ideas) ==
    LET r == sync_ideas_to_db(ideas, file_ideas)
    IN  /\ Len(r.is) <= MaxIdeas
        /\ ideas' = r.is
        /\ ret' = Ret("sync_ideas_to_db", Len(file_ideas), 0, 0, r.added, 0, TRUE) @@
                   [updated |-> r.updated]
        /\ UNCHANGED <<quests, today, events, days, result, commits, achievements>>

\* ideas created by hand, by the file sync and by skipping a quest, promoted
\* to quests that run through their lifecycle
NextIdeas ==
    /\ UNCHANGED prev
    /\ \/ CreateIdea("Build feature X")
       \/ \E file_ideas \in FileIdeaLists : SyncIdeasToDb(file_ideas)
       \/ AddManualQuest("Skip me", "Some details")
       \/ \E idea_id \in 1..(Len(ideas) + 1) : PromoteIdeaToQuest(idea_id)
       \/ \E quest_id \in 1..(Len(quests) + 1) : AcceptQuest(quest_id)
       \/ \E quest_id \in 1..(Len(quests) + 1) : CompleteQuest(quest_id)
       \/ \E quest_id \in 1..(Len(quests) + 1), save_as_idea \in BOOLEAN :
             SkipQuest(quest_id, "skip", save_as_idea)
    /\ Len(quests') <= MaxLifecycleQuests
    /\ Len(ideas') <= MaxIdeas

SpecIdeas == InitQuest /\ [][NextIdeas]_vars

\* what prev keeps of the call before the last: its counts, when it added
\* quests and skipped none
Remembered(r) ==
    IF r.added >= 1 /\ r.skipped = 0
    THEN Ret(r.op, 0, 0, 0, r.added, 0, TRUE)
    ELSE NoRet

\* the two synchronisations alone, fed from the full pools
NextSync ==
    \/ \E issues \in IssueLists :
          SyncGithubIssues(issues) /\ prev' = Remembered(ret)
    \/ \E todos \in TodoLists :
          SyncTodoComments(todos) /\ prev' = Remembered(ret)

SpecSync == InitQuest /\ [][NextSync]_vars

(***************************************************************************)
(* datetime: calendar dates as proleptic Gregorian ordinals, and the text  *)
(* form YYYY-MM-DD that strptime("%Y-%m-%d") reads and strftime and        *)
(* isoformat write                                                         *)
(***************************************************************************)
IsLeap(y) == (y % 4 = 0 /\ y % 100 # 0) \/ y % 400 = 0

DaysInMonth(y, m) ==
    IF m = 2 THEN (IF IsLeap(y) THEN 29 ELSE 28)
    ELSE IF m \in {4, 6, 9, 11} THEN 30 ELSE 31

DaysBeforeYear(y) ==
    365 * (y - 1) + ((y - 1) \div 4) - ((y - 1) \div 100) + ((y - 1) \div 400)

RECURSIVE DaysBeforeMonth(_, _)
DaysBeforeMonth(y, m) ==
    IF m = 1 THEN 0 ELSE DaysBeforeMonth(y, m - 1) + DaysInMonth(y, m - 1)

\* date(y, m, d).toordinal()
ToOrdinal(y, m, d) == DaysBeforeYear(y) + DaysBeforeMonth(y, m) + d

\* the years the model's dates lie in
Years == 2024..2028

\* date.fromordinal(n) as [y, m, d]
FromOrdinal(n) ==
    LET y == CHOOSE yy \in Years :
                 DaysBeforeYear(yy) < n /\ n <= DaysBeforeYear(yy + 1)
        r == n - DaysBeforeYear(y)
        m == CHOOSE mm \in 1..12 :
                 DaysBeforeMonth(y, mm) < r
                 /\ r <= DaysBeforeMonth(y, mm) + DaysInMonth(y, mm)
    IN  [y |-> y, m |-> m, d |-> r - DaysBeforeMonth(y, m)]

\* date.weekday(): Monday is 0
Weekday(n) == (n + 6) % 7

Digits == "0123456789"

IsDigits(s) ==
    Len(s) >= 1 /\ \A i \in 1..Len(s) : Contains(Digits, SubSeq(s, i, i))

RECURSIVE StrToNat(_)
StrToNat(s) ==
    IF s = "" THEN 0
    ELSE 10 * StrToNat(SubSeq(s, 1, Len(s) - 1))
         + (FindFrom(Digits, SubSeq(s, Len(s), Len(s)), 1) - 1)

\* what strptime raises ValueError for
ValueError == -1

\* datetime.strptime(s, "%Y-%m-%d").date() as an ordinal: four digits, one or
\* two digits, one or two digits, naming a day of the calendar
strptime(s) ==
    LET parts == Split(s, "-")
    IN  IF /\ Len(parts) = 3
           /\ IsDigits(parts[1]) /\ Len(parts[1]) = 4
           /\ IsDigits(parts[2]) /\ Len(parts[2]) <= 2
           /\ IsDigits(parts[3]) /\ Len(parts[3]) <= 2
        THEN LET y == StrToNat(parts[1])
                 m == StrToNat(parts[2])
                 d == StrToNat(parts[3])
             IN  IF y >= 1 /\ m \in 1..12 /\ d >= 1 /\ d <= DaysInMonth(y, m)
                 THEN ToOrdinal(y, m, d)
                 ELSE ValueError
        ELSE ValueError

RECURSIVE ZeroPad(_, _)
ZeroPad(n, width) ==
    IF Len(ToString(n)) >= width THEN ToString(n)
    ELSE "0" \o ZeroPad(n, width - 1)

\* date.isoformat() and strftime("%Y-%m-%d") of an ordinal
isoformat(n) ==
    LET c == FromOrdinal(n)
    IN  ZeroPad(c.y, 4) \o "-" \o ZeroPad(c.m, 2) \o "-" \o ZeroPad(c.d, 2)

\* the order of str: by code point, character by character
Alphabet == "-/0123456789abcdefghijklmnopqrstuvwxyz"

RECURSIVE StrLess(_, _)
StrLess(a, b) ==
    IF b = "" THEN FALSE
    ELSE IF a = "" THEN TRUE
    ELSE LET ca == FindFrom(Alphabet, SubSeq(a, 1, 1), 1)
             cb == FindFrom(Alphabet, SubSeq(b, 1, 1), 1)
         IN  IF ca # cb THEN ca < cb
             ELSE StrLess(SubSeq(a, 2, Len(a)), SubSeq(b, 2, Len(b)))

(***************************************************************************)
(* The days and date strings of the calculator runs.  Dates are written as *)
(* parse_commit_events writes them, the first ten characters of an ISO     *)
(* 8601 timestamp; next to them stand the values the calculators filter.   *)
(***************************************************************************)
\* the reference dates of the streak runs
StreakTodays == {"2026-03-01", "2026-03-02"}

\* the days the events of the streak runs fall on: 2026-02-26 .. 2026-03-03
StreakWindow == ToOrdinal(2026, 2, 26)..ToOrdinal(2026, 3, 3)

\* the reference dates of the statistics runs: a Thursday whose week began in
\* the year before, and a Tuesday inside its month
StatsTodays == {"2026-01-01", "2026-01-20"}

\* the days the events of the statistics runs fall on: the edges of the week,
\* the month and the rolling periods of the reference dates
StatsDays ==
    {ToOrdinal(2025, 1, 15), ToOrdinal(2025, 12, 2), ToOrdinal(2025, 12, 3),
     ToOrdinal(2025, 12, 25), ToOrdinal(2025, 12, 26), ToOrdinal(2025, 12, 28),
     ToOrdinal(2025, 12, 29), ToOrdinal(2025, 12, 31), ToOrdinal(2026, 1, 1),
     ToOrdinal(2026, 1, 4), ToOrdinal(2026, 1, 5), ToOrdinal(2026, 1, 20),
     ToOrdinal(2026, 1, 21), ToOrdinal(2026, 1, 31), ToOrdinal(2026, 2, 1),
     ToOrdinal(2027, 1, 10)}

MaxHistoryDays == 3     \* most days asked of calculate_history

\* the reference dates of the history runs: 2026-01-01 and 2026-03-01
HistoryTodays == {ToOrdinal(2026, 1, 1), ToOrdinal(2026, 3, 1)}

\* the days the events of the history runs fall on: the longest period of
\* each reference date, the day before it and the day after it
HistoryDays ==
    {t + k : t \in HistoryTodays, k \in (0 - MaxHistoryDays)..1}

ModelDays == StreakWindow \cup StatsDays \cup HistoryDays

\* date.fromordinal on the days of the runs
Calendar == [n \in ModelDays |-> FromOrdinal(n)]

\* date strings no calculator takes for a day
DirtyDates == {"", "unknown", "invalid-date", "2026-02-30"}

\* isoformat on the days of the runs
DateText == [n \in ModelDays |-> isoformat(n)]

DateStrings ==
    {DateText[n] : n \in ModelDays} \cup DirtyDates \cup StreakTodays
        \cup StatsTodays

\* strptime on the date strings of the runs
Strptime == [s \in DateStrings |-> strptime(s)]

\* the place of each date string of the runs in the order of str
StrRank == [s \in DateStrings |-> Cardinality({t \in DateStrings : StrLess(t, s)})]

(***************************************************************************)
(* src/streak_calculator.py                                                *)
(***************************************************************************)
\* a commit event's date: event.get("date")
EventDate(event) == Get(event, "date", None)

\* sorted(S, reverse=True) of a set of str
RECURSIVE SortedReverse(_)
SortedReverse(S) ==
    IF S = {} THEN <<>>
    ELSE LET top == CHOOSE x \in S : \A y \in S : StrRank[y] <= StrRank[x]
         IN  <<top>> \o SortedReverse(S \ {top})

\* [x for x in seq if x != v]
RECURSIVE Without(_, _)
Without(seq, v) ==
    IF seq = <<>> THEN <<>>
    ELSE IF seq[1] = v THEN Without(Tail(seq), v)
    ELSE <<seq[1]>> \o Without(Tail(seq), v)

\* the for loop of _calculate_current_streak from index i (1-based)
RECURSIVE CurrentStreakLoop(_, _, _, _)
CurrentStreakLoop(commit_dates, i, streak, current_date) ==
    IF i > Len(commit_dates) THEN streak
    ELSE LET commit_date == Strptime[commit_dates[i]]
             expected_date == current_date - 1
         IN  IF commit_date = ValueError THEN ValueError
             ELSE IF commit_date = expected_date
             THEN CurrentStreakLoop(commit_dates, i + 1, streak + 1, commit_date)
             ELSE IF commit_date < expected_date THEN streak
             ELSE CurrentStreakLoop(commit_dates, i + 1, streak, current_date)

\* _calculate_current_streak without the day of grace
_calculate_current_streak_TodayOnly(commit_dates, today_str) ==
    IF commit_dates = <<>> THEN 0
    ELSE LET today_date == Strptime[today_str]
             most_recent == Strptime[commit_dates[1]]
         IN  IF most_recent = ValueError THEN ValueError
             ELSE IF most_recent # today_date THEN 0
             ELSE CurrentStreakLoop(commit_dates, 2, 1, most_recent)

_calculate_current_streak(commit_dates, today_str) ==
    IF commit_dates = <<>> THEN 0
    ELSE LET today_date == Strptime[today_str]
             yesterday == today_date - 1
             most_recent == Strptime[commit_dates[1]]
         IN  IF most_recent = ValueError THEN ValueError
             ELSE IF most_recent # today_date /\ most_recent # yesterday THEN 0
             ELSE CurrentStreakLoop(commit_dates, 2, 1, most_recent)

Max(a, b) == IF a >= b THEN a ELSE b

\* LongestStreakLoop with the run counted from 1 at every pair of days
RECURSIVE LongestStreakLoop_ResetFirst(_, _, _, _)
LongestStreakLoop_ResetFirst(commit_dates, i, longest, current_streak) ==
    IF i > Len(commit_dates) THEN longest
    ELSE LET current_date == Strptime[commit_dates[i - 1]]
             prev_date == Strptime[commit_dates[i]]
         IN  IF current_date = ValueError \/ prev_date = ValueError
             THEN ValueError
             ELSE IF current_date - prev_date = 1
             THEN LongestStreakLoop_ResetFirst(commit_dates, i + 1,
                      Max(longest, 2), 2)
             ELSE LongestStreakLoop_ResetFirst(commit_dates, i + 1, longest, 1)

\* the for loop of _calculate_longest_streak from index i (1-based)
RECURSIVE LongestStreakLoop(_, _, _, _)
LongestStreakLoop(commit_dates, i, longest, current_streak) ==
    IF i > Len(commit_dates) THEN longest
    ELSE LET current_date == Strptime[commit_dates[i - 1]]
             prev_date == Strptime[commit_dates[i]]
         IN  IF current_date = ValueError \/ prev_date = ValueError
             THEN ValueError
             ELSE IF current_date - prev_date = 1
             THEN LongestStreakLoop(commit_dates, i + 1,
                      Max(longest, current_streak + 1), current_streak + 1)
             ELSE LongestStreakLoop(commit_dates, i + 1, longest, 1)

_calculate_longest_streak(commit_dates) ==
    IF commit_dates = <<>> THEN 0
    ELSE IF Len(commit_dates) = 1 THEN 1
    ELSE LongestStreakLoop(commit_dates, 2, 1, 1)

\* what calculate_streak returns; raised is TRUE when strptime's ValueError
\* leaves the function instead
StreakResult(raised, current, longest, active, last, dates) ==
    [op |-> "calculate_streak", raised |-> raised,
     current_streak |-> current, longest_streak |-> longest,
     streak_active |-> active, last_commit_date |-> last,
     commit_dates |-> dates]

NoStreak == StreakResult(FALSE, 0, 0, FALSE, None, <<>>)

StreakRaised == StreakResult(TRUE, 0, 0, FALSE, None, <<>>)

\* calculate_streak with the two counters returned in each other's place
calculate_streak_Swapped(commit_events, today_str) ==
    IF commit_events = <<>> THEN NoStreak
    ELSE LET commit_dates ==
                 Without(SortedReverse(
                     {EventDate(commit_events[i]) : i \in
                         {j \in 1..Len(commit_events) :
                             Truthy(EventDate(commit_events[j]))}}), "unknown")
         IN  IF commit_dates = <<>> THEN NoStreak
             ELSE LET last_commit_date == commit_dates[1]
                      streak_active == (last_commit_date = today_str)
                      current_streak ==
                          _calculate_current_streak(commit_dates, today_str)
                      longest_streak == _calculate_longest_streak(commit_dates)
                  IN  IF current_streak = ValueError
                         \/ longest_streak = ValueError
                      THEN StreakRaised
                      ELSE StreakResult(FALSE, longest_streak, current_streak,
                               streak_active, last_commit_date, commit_dates)

calculate_streak(commit_events, today_str) ==
    IF commit_events = <<>> THEN NoStreak
    ELSE LET commit_dates ==
                 Without(SortedReverse(
                     {EventDate(commit_events[i]) : i \in
                         {j \in 1..Len(commit_events) :
                             Truthy(EventDate(commit_events[j]))}}), "unknown")
         IN  IF commit_dates = <<>> THEN NoStreak
             ELSE LET last_commit_date == commit_dates[1]
                      streak_active == (last_commit_date = today_str)
                      current_streak ==
                          _calculate_current_streak(commit_dates, today_str)
                      longest_streak == _calculate_longest_streak(commit_dates)
                  IN  IF current_streak = ValueError
                         \/ longest_streak = ValueError
                      THEN StreakRaised
                      ELSE StreakResult(FALSE, current_streak,
                               Max(longest_streak, current_streak),
                               streak_active, last_commit_date, commit_dates)

(***************************************************************************)
(* src/stats_calculator.py                                                 *)
(***************************************************************************)
Stats(today_n, week, month, seven, thirty, total) ==
    [op |-> "calculate_stats",
     commits_today |-> today_n, commits_this_week |-> week,
     commits_this_month |-> month, commits_last_7_days |-> seven,
     commits_last_30_days |-> thirty, total_commits |-> total]

IfThen(cond, n) == IF cond THEN n ELSE 0

\* StatsStep with every event added to total_commits, dated or not
StatsStep_CountsUndated(acc, event, today_date) ==
    LET commit_count == Get(event, "commit_count", 0)
    IN  Stats(acc.commits_today, acc.commits_this_week,
              acc.commits_this_month, acc.commits_last_7_days,
              acc.commits_last_30_days, acc.total_commits + commit_count)

\* StatsStep with the week ending today instead of on Sunday
StatsStep_WeekToDate(acc, event, today_date) ==
    LET date_str == Get(event, "date", "")
        today_str == DateText[today_date]
        week_start == today_date - Weekday(today_date)
        month_start == ToOrdinal(Calendar[today_date].y, Calendar[today_date].m, 1)
        seven_days_ago == today_date - 6
        thirty_days_ago == today_date - 29
    IN  IF ~Truthy(date_str) \/ date_str = "unknown" THEN acc
        ELSE LET event_date == Strptime[date_str]
                 commit_count == Get(event, "commit_count", 0)
             IN  IF event_date = ValueError THEN acc
                 ELSE Stats(
                     acc.commits_today
                         + IfThen(date_str = today_str, commit_count),
                     acc.commits_this_week
                         + IfThen(week_start <= event_date
                                  /\ event_date <= today_date, commit_count),
                     acc.commits_this_month
                         + IfThen(event_date >= month_start
                                  /\ Calendar[event_date].m
                                         = Calendar[today_date].m, commit_count),
                     acc.commits_last_7_days
                         + IfThen(seven_days_ago <= event_date
                                  /\ event_date <= today_date, commit_count),
                     acc.commits_last_30_days
                         + IfThen(thirty_days_ago <= event_date
                                  /\ event_date <= today_date, commit_count),
                     acc.total_commits + commit_count)

\* the body of the for loop of calculate_stats
StatsStep(acc, event, today_date) ==
    LET date_str == Get(event, "date", "")
        today_str == DateText[today_date]
        week_start == today_date - Weekday(today_date)
        week_end == week_start + 6
        month_start == ToOrdinal(Calendar[today_date].y, Calendar[today_date].m, 1)
        seven_days_ago == today_date - 6
        thirty_days_ago == today_date - 29
    IN  IF ~Truthy(date_str) \/ date_str = "unknown" THEN acc
        ELSE LET event_date == Strptime[date_str]
                 commit_count == Get(event, "commit_count", 0)
             IN  IF event_date = ValueError THEN acc
                 ELSE Stats(
                     acc.commits_today
                         + IfThen(date_str = today_str, commit_count),
                     acc.commits_this_week
                         + IfThen(week_start <= event_date
                                  /\ event_date <= week_end, commit_count),
                     acc.commits_this_month
                         + IfThen(event_date >= month_start
                                  /\ Calendar[event_date].m
                                         = Calendar[today_date].m, commit_count),
                     acc.commits_last_7_days
                         + IfThen(seven_days_ago <= event_date
                                  /\ event_date <= today_date, commit_count),
                     acc.commits_last_30_days
                         + IfThen(thirty_days_ago <= event_date
                                  /\ event_date <= today_date, commit_count),
                     acc.total_commits + commit_count)

RECURSIVE StatsLoop(_, _, _)
StatsLoop(acc, commit_events, today_date) ==
    IF commit_events = <<>> THEN acc
    ELSE StatsLoop(StatsStep(acc, Head(commit_events), today_date),
                   Tail(commit_events), today_date)

calculate_stats(commit_events, today_str) ==
    StatsLoop(Stats(0, 0, 0, 0, 0, 0), commit_events, Strptime[today_str])

(***************************************************************************)
(* src/history_calculator.py                                               *)
(***************************************************************************)
_calculate_level(count) ==
    IF count = 0 THEN 0
    ELSE IF count = 1 THEN 1
    ELSE IF count <= 3 THEN 2
    ELSE IF count <= 5 THEN 3
    ELSE 4

\* commits_by_date.get(date_str, 0) after the first loop of calculate_history
RECURSIVE CommitsByDate(_, _)
CommitsByDate(commit_events, date_str) ==
    IF commit_events = <<>> THEN 0
    ELSE LET event == Head(commit_events)
             event_date == Get(event, "date", "")
             count == Get(event, "commit_count", 0)
         IN  IfThen(Truthy(event_date) /\ event_date = date_str, count)
             + CommitsByDate(Tail(commit_events), date_str)

\* the entry of day_list that the second loop appends in round i (0-based)
DayEntry(commit_events, start_date, i) ==
    LET current_date == start_date + i
        date_str == DateText[current_date]
        count == CommitsByDate(commit_events, date_str)
    IN  [date |-> date_str, count |-> count, level |-> _calculate_level(count)]

RECURSIVE MaxCount(_, _)
MaxCount(day_list, i) ==
    IF i > Len(day_list) THEN 0
    ELSE Max(MaxCount(day_list, i + 1), day_list[i].count)

\* calculate_history with the period starting today
calculate_history_FromToday(commit_events, days_n, today_date) ==
    LET start_date == today_date
        day_list == [k \in 1..days_n |->
                        DayEntry(commit_events, start_date, k - 1)]
    IN  [op |-> "calculate_history",
         days |-> day_list,
         period |-> [start |-> DateText[start_date],
                     end |-> DateText[today_date],
                     total_days |-> days_n],
         max_count |-> MaxCount(day_list, 1)]

\* calculate_history with max_count taken over every dated event
calculate_history_MaxOverAll(commit_events, days_n, today_date) ==
    LET start_date == today_date - (days_n - 1)
        day_list == [k \in 1..days_n |->
                        DayEntry(commit_events, start_date, k - 1)]
        all_days == [k \in 1..Len(commit_events) |->
                        [count |-> CommitsByDate(commit_events,
                                       Get(commit_events[k], "date", ""))]]
    IN  [op |-> "calculate_history",
         days |-> day_list,
         period |-> [start |-> DateText[start_date],
                     end |-> DateText[today_date],
                     total_days |-> days_n],
         max_count |-> MaxCount(all_days, 1)]

calculate_history(commit_events, days_n, today_date) ==
    LET start_date == today_date - (days_n - 1)
        day_list == [k \in 1..days_n |->
                        DayEntry(commit_events, start_date, k - 1)]
    IN  [op |-> "calculate_history",
         days |-> day_list,
         period |-> [start |-> DateText[start_date],
                     end |-> DateText[today_date],
                     total_days |-> days_n],
         max_count |-> MaxCount(day_list, 1)]

(***************************************************************************)
(* src/commit_parser.py                                                    *)
(***************************************************************************)
\* {}
EmptyDict == [k \in {} |-> None]

\* s[:n]
Prefix(s, n) == SubSeq(s, 1, IF Len(s) < n THEN Len(s) ELSE n)

\* the commit entries of a parsed event: short sha, first line of the message
ParsedCommits(commits_list) ==
    [k \in 1..Len(commits_list) |->
        [sha |-> Prefix(Get(commits_list[k], "sha", ""), 7),
         message |-> Split(Get(commits_list[k], "message", ""), "\n")[1]]]

\* ParsedEvent with the length of the commit list ahead of the declared size
ParsedEvent_ListFirst(event) ==
    LET created_at == Get(event, "created_at", "")
        payload == Get(event, "payload", EmptyDict)
        commits_list == Get(payload, "commits", <<>>)
    IN  [date |-> IF created_at # "" THEN Prefix(created_at, 10) ELSE "unknown",
         repo |-> Get(Get(event, "repo", EmptyDict), "name", "unknown"),
         commits |-> ParsedCommits(commits_list),
         commit_count |->
             IF commits_list # <<>> THEN Len(commits_list)
             ELSE IF "size" \in DOMAIN payload THEN payload.size
             ELSE 1]

\* the event parse_commit_events appends for a PushEvent
ParsedEvent(event) ==
    LET created_at == Get(event, "created_at", "")
        payload == Get(event, "payload", EmptyDict)
        commits_list == Get(payload, "commits", <<>>)
    IN  [date |-> IF created_at # "" THEN Prefix(created_at, 10) ELSE "unknown",
         repo |-> Get(Get(event, "repo", EmptyDict), "name", "unknown"),
         commits |-> ParsedCommits(commits_list),
         commit_count |->
             IF "size" \in DOMAIN payload THEN payload.size
             ELSE IF commits_list # <<>> THEN Len(commits_list)
             ELSE 1]

RECURSIVE parse_commit_events(_)
parse_commit_events(api_events) ==
    IF api_events = <<>> THEN <<>>
    ELSE IF Get(Head(api_events), "type", None) # "PushEvent"
    THEN parse_commit_events(Tail(api_events))
    ELSE <<ParsedEvent(Head(api_events))>> \o parse_commit_events(Tail(api_events))

(***************************************************************************)
(* src/storage.py: table commits                                           *)
(***************************************************************************)
\* a plain INSERT INTO commits
InsertCommit_NoIgnore(rows, date, repo, sha, message) ==
    Append(rows, [id |-> Len(rows) + 1, date |-> date, repo |-> repo,
                  sha |-> sha, message |-> message])

\* INSERT OR IGNORE INTO commits under UNIQUE(date, repo, sha): the table
\* after the statement; cursor.rowcount is the growth of the table
InsertCommit(rows, date, repo, sha, message) ==
    IF \E i \in 1..Len(rows) :
           rows[i].date = date /\ rows[i].repo = repo /\ rows[i].sha = sha
    THEN rows
    ELSE Append(rows, [id |-> Len(rows) + 1, date |-> date, repo |-> repo,
                       sha |-> sha, message |-> message])

\* the inner loop of save_commits over the commits of one event
RECURSIVE SaveEventCommits(_, _, _, _)
SaveEventCommits(acc, date, repo, commits_list) ==
    IF commits_list = <<>> THEN acc
    ELSE LET sha == Get(Head(commits_list), "sha", "")
             message == Get(Head(commits_list), "message", "")
         IN  IF ~(date # "" /\ repo # "" /\ sha # "")
             THEN SaveEventCommits(acc, date, repo, Tail(commits_list))
             ELSE LET rows == InsertCommit(acc.rows, date, repo, sha, message)
                  IN  SaveEventCommits(
                          [rows |-> rows,
                           inserted |-> acc.inserted + (Len(rows) - Len(acc.rows))],
                          date, repo, Tail(commits_list))

RECURSIVE SaveCommitsLoop(_, _)
SaveCommitsLoop(acc, commit_events) ==
    IF commit_events = <<>> THEN acc
    ELSE SaveCommitsLoop(
             SaveEventCommits(acc, Get(Head(commit_events), "date", ""),
                              Get(Head(commit_events), "repo", ""),
                              Get(Head(commit_events), "commits", <<>>)),
             Tail(commit_events))

\* save_commits: the table after the call and the number it returns
save_commits(rows, commit_events) ==
    SaveCommitsLoop([rows |-> rows, inserted |-> 0], commit_events)

\* the repositories of the stored commits, and their order as text
RepoNames == {"user/myrepo", "user/other", "unknown"}
RepoRank == [s \in RepoNames |-> Cardinality({t \in RepoNames : StrLess(t, s)})]

\* ORDER BY date DESC, repo, id
RowBefore(a, b) ==
    \/ StrRank[b.date] < StrRank[a.date]
    \/ a.date = b.date /\ RepoRank[a.repo] < RepoRank[b.repo]
    \/ a.date = b.date /\ a.repo = b.repo /\ a.id < b.id

RECURSIVE OrderedRows(_)
OrderedRows(S) ==
    IF S = {} THEN <<>>
    ELSE LET first == CHOOSE r \in S : \A q \in S \ {r} : RowBefore(r, q)
         IN  <<first>> \o OrderedRows(S \ {first})

\* events_dict: one event per (date, repo), in the order the keys first occur
RECURSIVE GroupRows(_, _)
GroupRows(grouped, rows) ==
    IF rows = <<>> THEN grouped
    ELSE LET row == Head(rows)
             entry == [sha |-> row.sha, message |-> row.message]
             at == {k \in 1..Len(grouped) :
                       grouped[k].date = row.date /\ grouped[k].repo = row.repo}
         IN  IF at = {}
             THEN GroupRows(Append(grouped,
                      [date |-> row.date, repo |-> row.repo,
                       commits |-> <<entry>>, commit_count |-> 1]), Tail(rows))
             ELSE LET k == CHOOSE j \in at : TRUE
                  IN  GroupRows(
                          [grouped EXCEPT
                              ![k].commits = Append(@, entry),
                              ![k].commit_count = @ + 1], Tail(rows))

\* list.sort(key=date, reverse=True): stable, later dates first
RECURSIVE SortByDateDesc(_)
SortByDateDesc(seq) ==
    IF seq = <<>> THEN <<>>
    ELSE LET k == CHOOSE i \in 1..Len(seq) :
                      /\ \A j \in 1..Len(seq) :
                             StrRank[seq[i].date] >= StrRank[seq[j].date]
                      /\ \A j \in 1..(i - 1) :
                             StrRank[seq[j].date] < StrRank[seq[i].date]
         IN  <<seq[k]>> \o SortByDateDesc(
                 SubSeq(seq, 1, k - 1) \o SubSeq(seq, k + 1, Len(seq)))

\* get_all_commits: the stored commits as commit events
get_all_commits(rows) ==
    SortByDateDesc(
        GroupRows(<<>>, OrderedRows({rows[i] : i \in 1..Len(rows)})))

(***************************************************************************)
(* src/achievements.py and table achievements of src/storage.py            *)
(***************************************************************************)
Achievement(id, category, threshold) ==
    [id |-> id, category |-> category, threshold |-> threshold]

STREAK_ACHIEVEMENTS ==
    <<Achievement("streak_3", "streak", 3),
      Achievement("streak_7", "streak", 7),
      Achievement("streak_14", "streak", 14),
      Achievement("streak_30", "streak", 30),
      Achievement("streak_100", "streak", 100)>>

COMMIT_ACHIEVEMENTS ==
    <<Achievement("first_commit", "commits", 1),
      Achievement("commits_10", "commits", 10),
      Achievement("commits_50", "commits", 50),
      Achievement("commits_100", "commits", 100),
      Achievement("commits_500", "commits", 500)>>

ACHIEVEMENTS == STREAK_ACHIEVEMENTS \o COMMIT_ACHIEVEMENTS

\* Criterion with the streak achievements measured on current_streak
Criterion_CurrentStreak(achievement, current_streak, longest_streak, total_commits) ==
    IF achievement.category = "streak"
    THEN current_streak >= achievement.threshold
    ELSE IF achievement.category = "commits"
    THEN total_commits >= achievement.threshold
    ELSE FALSE

\* the criterion check_achievements applies to an achievement not yet unlocked
Criterion(achievement, current_streak, longest_streak, total_commits) ==
    IF achievement.category = "streak"
    THEN longest_streak >= achievement.threshold
    ELSE IF achievement.category = "commits"
    THEN total_commits >= achievement.threshold
    ELSE FALSE

RECURSIVE CheckLoop(_, _, _, _, _)
CheckLoop(list, current_streak, longest_streak, total_commits, unlocked_ids) ==
    IF list = <<>> THEN <<>>
    ELSE IF Head(list).id \in unlocked_ids
    THEN CheckLoop(Tail(list), current_streak, longest_streak, total_commits,
                   unlocked_ids)
    ELSE IF Criterion(Head(list), current_streak, longest_streak, total_commits)
    THEN <<Head(list)>> \o CheckLoop(Tail(list), current_streak,
                               longest_streak, total_commits, unlocked_ids)
    ELSE CheckLoop(Tail(list), current_streak, longest_streak, total_commits,
                   unlocked_ids)

check_achievements(current_streak, longest_streak, total_commits, unlocked_ids) ==
    CheckLoop(ACHIEVEMENTS, current_streak, longest_streak, total_commits,
              unlocked_ids)

\* save_achievement_Replace: INSERT OR REPLACE in place of INSERT OR IGNORE
save_achievement_Replace(rows, achievement_id, unlocked_value, unlocked_at) ==
    LET kept == SelectSeq(rows, LAMBDA r : r.id # achievement_id)
    IN  [rows |-> Append(kept, [id |-> achievement_id,
                                unlocked_at |-> unlocked_at,
                                unlocked_value |-> unlocked_value]),
         saved |-> TRUE]

\* save_achievement: INSERT OR IGNORE under PRIMARY KEY id; the table after
\* the call and the value returned (cursor.rowcount > 0)
save_achievement(rows, achievement_id, unlocked_value, unlocked_at) ==
    IF \E i \in 1..Len(rows) : rows[i].id = achievement_id
    THEN [rows |-> rows, saved |-> FALSE]
    ELSE [rows |-> Append(rows, [id |-> achievement_id,
                                 unlocked_at |-> unlocked_at,
                                 unlocked_value |-> unlocked_value]),
          saved |-> TRUE]

\* the indexes of the records unlocked_lookup holds under id
UnlockedAt(unlocked_achievements, id) ==
    {i \in 1..Len(unlocked_achievements) : unlocked_achievements[i].id = id}

\* unlocked_lookup[id], the last record with that id
UnlockedRecord(unlocked_achievements, id) ==
    LET at == UnlockedAt(unlocked_achievements, id)
    IN  unlocked_achievements[CHOOSE i \in at : \A j \in at : j <= i]

get_all_achievements_status(unlocked_achievements) ==
    [k \in 1..Len(ACHIEVEMENTS) |->
        LET achievement == ACHIEVEMENTS[k]
            found == UnlockedAt(unlocked_achievements, achievement.id) # {}
            unlocked_record == UnlockedRecord(unlocked_achievements, achievement.id)
        IN  [id |-> achievement.id,
             category |-> achievement.category,
             threshold |-> achievement.threshold,
             unlocked |-> found,
             unlocked_at |-> IF found THEN unlocked_record.unlocked_at ELSE None,
             unlocked_value |-> IF found THEN unlocked_record.unlocked_value
                                ELSE None]]

(***************************************************************************)
(* src/quest_manager.py: priorities.  A datetime is the ordinal of its day  *)
(* and the second of the day; the created_at of a quest is text.           *)
(***************************************************************************)
\* HH:MM:SS as the second of the day
ParseTime(s) ==
    IF /\ Len(s) = 8
       /\ SubSeq(s, 3, 3) = ":" /\ SubSeq(s, 6, 6) = ":"
       /\ IsDigits(SubSeq(s, 1, 2)) /\ IsDigits(SubSeq(s, 4, 5))
       /\ IsDigits(SubSeq(s, 7, 8))
       /\ StrToNat(SubSeq(s, 1, 2)) < 24 /\ StrToNat(SubSeq(s, 4, 5)) < 60
       /\ StrToNat(SubSeq(s, 7, 8)) < 60
    THEN 3600 * StrToNat(SubSeq(s, 1, 2)) + 60 * StrToNat(SubSeq(s, 4, 5))
             + StrToNat(SubSeq(s, 7, 8))
    ELSE ValueError

\* a timezone offset: sign and HH:MM
IsOffset(s) ==
    /\ Len(s) = 6
    /\ SubSeq(s, 1, 1) \in {"+", "-"}
    /\ ParseTime(SubSeq(s, 2, 6) \o ":00") # ValueError

\* datetime.fromisoformat(s) on the texts of the model: YYYY-MM-DD alone, or
\* followed by one separator character and HH:MM:SS, or by these and an
\* offset (an aware datetime); ok is false where it raises ValueError
fromisoformat(s) ==
    LET day == IF Len(s) >= 10 /\ SubSeq(s, 5, 5) = "-" /\ SubSeq(s, 8, 8) = "-"
               THEN strptime(SubSeq(s, 1, 10)) ELSE ValueError
        sec == IF Len(s) = 10 THEN 0
               ELSE IF Len(s) >= 19 THEN ParseTime(SubSeq(s, 12, 19))
               ELSE ValueError
        ok == /\ day # ValueError /\ sec # ValueError
              /\ \/ Len(s) \in {10, 19}
                 \/ Len(s) = 25 /\ IsOffset(SubSeq(s, 20, 25))
    IN  [ok |-> ok, day |-> day, sec |-> sec, aware |-> Len(s) = 25]

\* (now - created_at).days: whole days, rounded down
AgeDays(now, created_at) ==
    (now.day - created_at.day) - (IF now.sec < created_at.sec THEN 1 ELSE 0)

Min(a, b) == IF a < b THEN a ELSE b

\* datetime.now() of the calls: 2026-03-01 12:30:00
Now == [day |-> ToOrdinal(2026, 3, 1), sec |-> 45000]

\* the moments quests were created at: days before now, and the time of day
CreatedDaysAgo == {0, 1, 5, 10, 15}
CreatedSeconds == {0, 45000, 67510}
Moments == [day : {Now.day - n : n \in CreatedDaysAgo}, sec : CreatedSeconds]

\* datetime.isoformat(sep) of a moment
IsoText(t, sep) ==
    isoformat(t.day) \o sep \o ZeroPad(t.sec \div 3600, 2) \o ":"
        \o ZeroPad((t.sec % 3600) \div 60, 2) \o ":" \o ZeroPad(t.sec % 60, 2)

\* created_at as SQLite's CURRENT_TIMESTAMP and as isoformat() write it, as
\* a date alone, and values that do not parse or are aware
CreatedTexts ==
    {IsoText(t, " ") : t \in Moments}
        \cup {IsoText(t, "T") : t \in {u \in Moments : u.sec = 45000}}
        \cup {isoformat(t.day) : t \in {u \in Moments : u.sec = 0}}
BadCreatedTexts ==
    {"", "not-a-date", "2026-02-30 12:30:00", "2026-02-24T12:30:00+00:00"}

\* fromisoformat on the created_at texts of the runs
FromIso == [s \in CreatedTexts \cup BadCreatedTexts |-> fromisoformat(s)]

\* the age factor with no upper limit
AgeScore_Uncapped(quest, now) ==
    LET created_at_str == Get(quest, "created_at", None)
    IN  IF ~Truthy(created_at_str) THEN 0
        ELSE LET created_at == FromIso[created_at_str]
             IN  IF ~created_at.ok \/ created_at.aware THEN 0
                 ELSE AgeDays(now, created_at)

\* the age factor: nothing without created_at, nothing when fromisoformat
\* raises ValueError or the subtraction from the naive now raises TypeError
AgeScore(quest, now) ==
    LET created_at_str == Get(quest, "created_at", None)
    IN  IF ~Truthy(created_at_str) THEN 0
        ELSE LET created_at == FromIso[created_at_str]
             IN  IF ~created_at.ok \/ created_at.aware THEN 0
                 ELSE Min(AgeDays(now, created_at), 10)

\* source_scores.get(source, 0)
source_scores(source) ==
    CASE source = "github_issue" -> 3
      [] source = "todo_scan" -> 2
      [] source = "ideas_md" -> 1
      [] source = "manual" -> 0
      [] OTHER -> 0

calculate_priority_score(quest, previous_source, now) ==
    AgeScore(quest, now)
    + source_scores(Get(quest, "source", ""))
    + (IF Truthy(Get(quest, "description", None)) THEN 2 ELSE 0)
    + (IF Truthy(previous_source) /\ Get(quest, "source", None) # previous_source
       THEN 3 ELSE 0)

\* quests.sort(key=priority_score, reverse=True): stable, higher scores first
RECURSIVE SortByScoreDesc(_)
SortByScoreDesc(seq) ==
    IF seq = <<>> THEN <<>>
    ELSE LET k == CHOOSE i \in 1..Len(seq) :
                      /\ \A j \in 1..Len(seq) :
                             seq[i].priority_score >= seq[j].priority_score
                      /\ \A j \in 1..(i - 1) :
                             seq[j].priority_score < seq[i].priority_score
         IN  <<seq[k]>> \o SortByScoreDesc(
                 SubSeq(seq, 1, k - 1) \o SubSeq(seq, k + 1, Len(seq)))

RECURSIVE BestCandidate_NoWindow(_, _, _, _)
BestCandidate_NoWindow(remaining, prev_source, i, best) ==
    IF i > Len(remaining) THEN best
    ELSE LET adjusted_score ==
                 remaining[i].priority_score
                 + (IF Get(remaining[i], "source", None) # prev_source
                    THEN 3 ELSE 0)
         IN  BestCandidate_NoWindow(remaining, prev_source, i + 1,
                 IF adjusted_score > best.score
                 THEN [idx |-> i, score |-> adjusted_score] ELSE best)

\* the search for the best of the first five remaining quests, from position
\* i on: best is [idx, score]
RECURSIVE BestCandidate(_, _, _, _)
BestCandidate(remaining, prev_source, i, best) ==
    IF i > Min(5, Len(remaining)) THEN best
    ELSE LET adjusted_score ==
                 remaining[i].priority_score
                 + (IF Get(remaining[i], "source", None) # prev_source
                    THEN 3 ELSE 0)
         IN  BestCandidate(remaining, prev_source, i + 1,
                 IF adjusted_score > best.score
                 THEN [idx |-> i, score |-> adjusted_score] ELSE best)

\* the second pass of get_prioritized_quests
RECURSIVE SelectLoop(_, _, _, _)
SelectLoop(selection, remaining, prev_source, limit) ==
    IF remaining = <<>> \/ Len(selection) >= limit THEN selection
    ELSE LET first == [idx |-> 1, score |-> remaining[1].priority_score]
             best == IF Truthy(prev_source)
                     THEN BestCandidate(remaining, prev_source, 1, first)
                     ELSE first
             selected == [remaining[best.idx] EXCEPT !.priority_score = best.score]
         IN  SelectLoop(Append(selection, selected),
                        SubSeq(remaining, 1, best.idx - 1)
                            \o SubSeq(remaining, best.idx + 1, Len(remaining)),
                        Get(selected, "source", None), limit)

\* get_prioritized_quests on the list storage.get_quests(status) returns
get_prioritized_quests(stored, limit, now) ==
    LET scored == [k \in 1..Len(stored) |->
                      stored[k] @@ [priority_score |->
                          calculate_priority_score(stored[k], None, now)]]
    IN  SelectLoop(<<>>, SortByScoreDesc(scored), None, limit)

(***************************************************************************)
(* The streak of a growing list of commit events                           *)
(***************************************************************************)
MaxStreakEvents == 4    \* longest event list handed to calculate_streak

\* parsed commit events as calculate_streak reads them: days before, on and
\* after the reference date, and the dates the function filters or fails on
StreakEvents ==
    {[date |-> DateText[n], commit_count |-> 1] : n \in StreakWindow}
    \cup {[date |-> "unknown", commit_count |-> 1],
          [date |-> "", commit_count |-> 1],
          [commit_count |-> 1],
          [date |-> "invalid-date", commit_count |-> 1]}

\* no call is in progress on the quest store
QuestIdle ==
    quests = <<>> /\ ideas = <<>> /\ ret = NoRet /\ prev = NoRet /\ StoreIdle

InitStreak ==
    /\ QuestIdle
    /\ days = 0
    /\ today \in StreakTodays
    /\ events = <<>>
    /\ result = calculate_streak(<<>>, today)

\* one more event has been fetched and the streak is calculated again
CalculateStreak(event) ==
    /\ Len(events) < MaxStreakEvents
    /\ events' = Append(events, event)
    /\ result' = calculate_streak(events', today)
    /\ UNCHANGED <<quests, ideas, ret, prev, today, days, commits,
                 achievements>>

NextStreak == \E event \in StreakEvents : CalculateStreak(event)

SpecStreak == InitStreak /\ [][NextStreak]_vars

(***************************************************************************)
(* The statistics of a growing list of commit events                       *)
(***************************************************************************)
MaxStatsEvents == 2     \* longest event list handed to calculate_stats

CommitCounts == {1, 2}

\* parsed commit events as calculate_stats reads them, and events without a
\* usable date or without a count
StatsEvents ==
    {[date |-> DateText[n], commit_count |-> c] :
        n \in StatsDays, c \in CommitCounts}
    \cup {[date |-> d, commit_count |-> 1] : d \in DirtyDates}
    \cup {[commit_count |-> 1], [date |-> "2026-01-20"]}

InitStats ==
    /\ QuestIdle
    /\ days = 0
    /\ today \in StatsTodays
    /\ events = <<>>
    /\ result = calculate_stats(<<>>, today)

\* one more event has been fetched and the statistics are calculated again
CalculateStats(event) ==
    /\ Len(events) < MaxStatsEvents
    /\ events' = Append(events, event)
    /\ result' = calculate_stats(events', today)
    /\ UNCHANGED <<quests, ideas, ret, prev, today, days, commits,
                 achievements>>

NextStats == \E event \in StatsEvents : CalculateStats(event)

SpecStats == InitStats /\ [][NextStats]_vars

(***************************************************************************)
(* The history of a growing list of commit events                          *)
(***************************************************************************)
MaxHistoryEvents == 2   \* longest event list handed to calculate_history

HistoryCounts == {1, 3}

\* commit events as calculate_history reads them
HistoryEvents ==
    {[date |-> DateText[n], commit_count |-> c] :
        n \in HistoryDays, c \in HistoryCounts}
    \cup {[date |-> "unknown", commit_count |-> 1],
          [date |-> "", commit_count |-> 1],
          [commit_count |-> 1]}

InitHistory ==
    /\ QuestIdle
    /\ days \in 0..MaxHistoryDays
    /\ today \in HistoryTodays
    /\ events = <<>>
    /\ result = calculate_history(<<>>, days, today)

\* one more event has been fetched and the history is calculated again
CalculateHistory(event) ==
    /\ Len(events) < MaxHistoryEvents
    /\ events' = Append(events, event)
    /\ result' = calculate_history(events', days, today)
    /\ UNCHANGED <<quests, ideas, ret, prev, today, days, commits,
                 achievements>>

NextHistory == \E event \in HistoryEvents : CalculateHistory(event)

SpecHistory == InitHistory /\ [][NextHistory]_vars

(***************************************************************************)
(* One call of check_achievements                                          *)
(***************************************************************************)
\* streak lengths and commit totals on both sides of every threshold
StreakValues == {0, 2, 3, 6, 7, 13, 14, 29, 30, 99, 100}

CurrentValues == {0, 3, 100}

CommitValues == {0, 1, 9, 10, 49, 50, 99, 100, 499, 500}

UnlockedSets == SUBSET {"streak_3", "streak_14", "first_commit", "commits_100"}

CheckCall(called, current, longest, total, unlocked_ids, newly_unlocked) ==
    [op |-> "check_achievements", called |-> called,
     current_streak |-> current, longest_streak |-> longest,
     total_commits |-> total, unlocked_ids |-> unlocked_ids,
     newly_unlocked |-> newly_unlocked]

InitCheck ==
    /\ QuestIdle
    /\ today = 0
    /\ events = <<>>
    /\ days = 0
    /\ result \in {CheckCall(FALSE, c, l, t, u, <<>>) :
                      c \in CurrentValues, l \in StreakValues,
                      t \in CommitValues, u \in UnlockedSets}

\* check_achievements is called with the arguments drawn
CheckAchievements ==
    /\ ~result.called
    /\ result' = CheckCall(TRUE, result.current_streak, result.longest_streak,
                           result.total_commits, result.unlocked_ids,
                           check_achievements(result.current_streak,
                               result.longest_streak, result.total_commits,
                               result.unlocked_ids))
    /\ UNCHANGED <<quests, ideas, ret, prev, today, events, days, commits,
                   achievements>>

NextCheck == CheckAchievements

SpecCheck == InitCheck /\ [][NextCheck]_vars

(***************************************************************************)
(* The dashboard: _fetch_stats_data on successive days, and the            *)
(* achievements table                                                      *)
(***************************************************************************)
MaxElapsedDays == 4     \* most days that pass after the first day
MaxApiLag == 2          \* oldest push the events API still returns, in days

\* the first day of the run: 2026-02-26
FirstDay == ToOrdinal(2026, 2, 26)

\* a PushEvent of one commit as the events API returns it for day n
Push(n) ==
    [type |-> "PushEvent",
     created_at |-> DateText[n] \o "T12:00:00Z",
     repo |-> [name |-> "user/myrepo"],
     payload |-> [commits |-> <<[sha |-> "a1b2c3d4e5f6", message |-> "Fix bug"]>>]]

\* what client.get_user_events may return on day n
ApiResponses(n) ==
    {<<>>} \cup {<<Push(d)>> : d \in {k \in (n - MaxApiLag)..n : k >= FirstDay}}

StatsData(raised, at, current, longest, total, status) ==
    [op |-> "_fetch_stats_data", raised |-> raised, today |-> at,
     current_streak |-> current, longest_streak |-> longest,
     total_commits |-> total, achievements |-> status]

\* UnlockValue with current_streak as the value of a streak achievement
UnlockValue_Current(achievement, streak_info, stats) ==
    IF achievement.category = "streak" THEN streak_info.current_streak
    ELSE stats.total_commits

\* value = longest_streak for a streak achievement, total_commits otherwise
UnlockValue(achievement, streak_info, stats) ==
    IF achievement.category = "streak" THEN streak_info.longest_streak
    ELSE stats.total_commits

\* the loop of _fetch_stats_data that saves the newly unlocked achievements
RECURSIVE SaveNewlyUnlocked(_, _, _, _, _)
SaveNewlyUnlocked(rows, newly_unlocked, streak_info, stats, at) ==
    IF newly_unlocked = <<>> THEN rows
    ELSE LET achievement == Head(newly_unlocked)
             value == UnlockValue(achievement, streak_info, stats)
         IN  SaveNewlyUnlocked(
                 IF value >= achievement.threshold
                 THEN save_achievement(rows, achievement.id, value, at).rows
                 ELSE rows,
                 Tail(newly_unlocked), streak_info, stats, at)

InitDashboard ==
    /\ quests = <<>> /\ ideas = <<>> /\ ret = NoRet /\ prev = NoRet
    /\ StoreIdle
    /\ today = DateText[FirstDay]
    /\ events = <<>>
    /\ days = 0
    /\ result = [op |-> "none"]

\* _fetch_stats_data: the events of the API are parsed and stored, the stored
\* history is read back, streak and statistics are calculated for today, the
\* newly unlocked achievements are saved and the status view is built
FetchStatsData(api_events) ==
    \E stored \in {save_commits(commits, parse_commit_events(api_events)).rows} :
    \E commit_events \in {get_all_commits(stored)} :
    \E streak_info \in {calculate_streak(commit_events, today)} :
    \E stats \in {calculate_stats(commit_events, today)} :
    \E unlocked_ids \in {{achievements[i].id : i \in 1..Len(achievements)}} :
    \E newly_unlocked \in
           {check_achievements(streak_info.current_streak,
                streak_info.longest_streak, stats.total_commits, unlocked_ids)} :
    \E unlocked_records \in
           {SaveNewlyUnlocked(achievements, newly_unlocked, streak_info, stats,
                              today)} :
        /\ commits' = stored
        /\ events' = commit_events
        /\ IF streak_info.raised
           THEN /\ achievements' = achievements
                /\ result' = StatsData(TRUE, today, 0, 0, 0, <<>>)
           ELSE /\ achievements' = unlocked_records
                /\ result' = StatsData(FALSE, today, streak_info.current_streak,
                                 streak_info.longest_streak, stats.total_commits,
                                 get_all_achievements_status(unlocked_records))
        /\ UNCHANGED <<quests, ideas, ret, prev, today, days>>

\* storage.save_achievement(achievement_id, unlocked_value)
SaveAchievement(achievement_id, unlocked_value) ==
    LET r == save_achievement(achievements, achievement_id, unlocked_value, today)
    IN  /\ achievements' = r.rows
        /\ result' = [op |-> "save_achievement", id |-> achievement_id,
                      value |-> unlocked_value, saved |-> r.saved]
        /\ UNCHANGED <<quests, ideas, ret, prev, today, events, days, commits>>

\* storage.reset_achievements()
ResetAchievements ==
    /\ achievements' = <<>>
    /\ result' = [op |-> "reset_achievements"]
    /\ UNCHANGED <<quests, ideas, ret, prev, today, events, days, commits>>

\* midnight
NextDay ==
    /\ Strptime[today] < FirstDay + MaxElapsedDays
    /\ today' = DateText[Strptime[today] + 1]
    /\ UNCHANGED <<quests, ideas, ret, prev, events, days, result, commits,
                   achievements>>

NextDashboard ==
    \/ \E api_events \in ApiResponses(Strptime[today]) : FetchStatsData(api_events)
    \/ ResetAchievements
    \/ NextDay

SpecDashboard == InitDashboard /\ [][NextDashboard]_vars

\* the calls of the achievements table alone
NextUnlocks ==
    \/ \E achievement_id \in {"streak_3", "streak_7", "first_commit"},
          unlocked_value \in {1, 3, 7} :
          SaveAchievement(achievement_id, unlocked_value)
    \/ ResetAchievements
    \/ NextDay

SpecUnlocks == InitDashboard /\ [][NextUnlocks]_vars

(***************************************************************************)
(* Table commits under calls of save_commits                               *)
(***************************************************************************)
\* commits as parse_commit_events writes them, and two that lack a sha
CommitFix == [sha |-> "a1b2c3d", message |-> "Fix bug"]
CommitFixReworded == [sha |-> "a1b2c3d", message |-> "Fix bug again"]
CommitAdd == [sha |-> "e4f5a6b", message |-> "Add feature"]
CommitEmptySha == [sha |-> "", message |-> "Add feature"]
CommitNoSha == [message |-> "Add feature"]

CommitEvent(date, repo, commits_list) ==
    [date |-> date, repo |-> repo, commits |-> commits_list,
     commit_count |-> Len(commits_list)]

\* the lists of commit events save_commits is called with
CommitBatches ==
    LET d1 == DateText[FirstDay]
        d2 == DateText[FirstDay + 1]
    IN  { <<>>,
          <<CommitEvent(d1, "user/myrepo", <<CommitFix, CommitAdd>>)>>,
          <<CommitEvent(d1, "user/myrepo", <<CommitFixReworded>>)>>,
          <<CommitEvent(d1, "user/other", <<CommitFix>>)>>,
          <<CommitEvent(d2, "user/myrepo", <<CommitFix, CommitFix>>)>>,
          <<CommitEvent(d2, "user/myrepo", <<CommitAdd>>),
            CommitEvent(d1, "user/myrepo", <<CommitEmptySha, CommitAdd>>)>>,
          <<CommitEvent(d1, "user/other", <<CommitNoSha>>),
            CommitEvent(d1, "user/other", <<CommitFix>>)>>,
          <<CommitEvent("", "user/myrepo", <<CommitAdd>>)>>,
          <<CommitEvent(d1, "", <<CommitAdd>>)>>,
          <<[repo |-> "user/myrepo", commits |-> <<CommitAdd>>]>>,
          <<[date |-> d2, repo |-> "user/other", commits |-> <<>>,
             commit_count |-> 3]>>,
          <<[date |-> d2, repo |-> "user/other"]>>,
          <<CommitEvent("unknown", "unknown", <<CommitFix>>)>> }

InitCommits == InitDashboard

\* storage.save_commits(commit_events); the rows the table held before the
\* call are counted in the result
SaveCommits(commit_events) ==
    LET saved == save_commits(commits, commit_events)
    IN  /\ commits' = saved.rows
        /\ result' = [op |-> "save_commits", commit_events |-> commit_events,
                      before |-> Len(commits), inserted |-> saved.inserted]
        /\ UNCHANGED <<quests, ideas, ret, prev, today, events, days,
                       achievements>>

\* storage.get_all_commits()
GetAllCommits ==
    /\ result' = [op |-> "get_all_commits",
                  commit_events |-> get_all_commits(commits)]
    /\ UNCHANGED <<quests, ideas, ret, prev, today, events, days, commits,
                   achievements>>

NextCommits ==
    \/ \E commit_events \in CommitBatches : SaveCommits(commit_events)
    \/ GetAllCommits

SpecCommits == InitCommits /\ [][NextCommits]_vars

(***************************************************************************)
(* One call of parse_commit_events                                         *)
(***************************************************************************)
MaxApiEvents == 2       \* most events in one API response

\* a commit of a push payload as the events API sends it
ApiCommit(sha, message) == [sha |-> sha, message |-> message]

\* the timestamp of an event made n days after the first day
Timestamp(n) == DateText[FirstDay + n] \o "T08:30:00Z"

\* events of the GitHub events API: pushes with and without repository name,
\* timestamp, size and commit list, and events of other types
ApiEventPool ==
    { Push(FirstDay),
      [type |-> "WatchEvent", created_at |-> Timestamp(1),
       repo |-> [name |-> "user/watched"], payload |-> [action |-> "started"]],
      [created_at |-> Timestamp(1), repo |-> [name |-> "user/untyped"],
       payload |-> [size |-> 2]],
      [type |-> "PushEvent", created_at |-> Timestamp(2),
       payload |-> [commits |-> <<ApiCommit("0123456789abcdef", "Add parser")>>]],
      [type |-> "PushEvent", created_at |-> Timestamp(3), repo |-> [id |-> 7],
       payload |-> [size |-> 1,
                    commits |-> <<ApiCommit("0123456789abcdef", "Add parser")>>]],
      [type |-> "PushEvent", repo |-> [name |-> "user/undated"],
       payload |-> [commits |-> <<ApiCommit("fedcba9876543210", "Add tests")>>]],
      [type |-> "PushEvent", created_at |-> "", repo |-> [name |-> "user/blank"],
       payload |-> [size |-> 1]],
      [type |-> "PushEvent", created_at |-> Timestamp(4),
       repo |-> [name |-> "user/sized"], payload |-> [size |-> 3]],
      [type |-> "PushEvent", created_at |-> Timestamp(1),
       repo |-> [name |-> "user/empty"],
       payload |-> [size |-> 0, commits |-> <<>>]],
      [type |-> "PushEvent", created_at |-> Timestamp(2),
       repo |-> [name |-> "user/truncated"],
       payload |-> [size |-> 5,
                    commits |-> <<ApiCommit("0123456789abcdef", "Add parser"),
                                  ApiCommit("abc", "Short sha")>>]],
      [type |-> "PushEvent", created_at |-> Timestamp(3),
       repo |-> [name |-> "user/bare"]],
      [type |-> "PushEvent", created_at |-> Timestamp(4),
       repo |-> [name |-> "user/listed"],
       payload |-> [commits |-> <<ApiCommit("fedcba9876543210", "Add tests\n\nDetails"),
                                  [message |-> "No sha"]>>]] }

InitParse ==
    /\ QuestIdle
    /\ today = 0
    /\ events = <<>>
    /\ days = 0
    /\ \E api_events \in SeqsUpTo(ApiEventPool, MaxApiEvents) :
           result = [op |-> "parse_commit_events", called |-> FALSE,
                     api_events |-> api_events]

\* parse_commit_events(api_events)
ParseCommitEvents ==
    /\ ~result.called
    /\ result' = [result EXCEPT !.called = TRUE] @@
                     [commit_events |-> parse_commit_events(result.api_events)]
    /\ UNCHANGED <<quests, ideas, ret, prev, today, events, days, commits,
                   achievements>>

NextParse == ParseCommitEvents

SpecParse == InitParse /\ [][NextParse]_vars

(***************************************************************************)
(* One call of calculate_priority_score                                    *)
(***************************************************************************)
Sources == {"github_issue", "todo_scan", "ideas_md", "manual"}

\* the fields of a quest dict, each present or not
CreatedFields ==
    {EmptyDict, [created_at |-> None]}
        \cup {[created_at |-> s] : s \in CreatedTexts \cup BadCreatedTexts}
SourceFields == {EmptyDict} \cup {[source |-> s] : s \in Sources \cup {"other"}}
DescriptionFields ==
    {EmptyDict} \cup {[description |-> s] : s \in {None, "", "Some details here"}}
AiFields ==
    {EmptyDict} \cup {[ai_description |-> s] : s \in {None, "Enhanced description"}}
DifficultyFields == {EmptyDict} \cup {[difficulty |-> n] : n \in {1, 2, 3, 5}}

ScoredQuests ==
    {c @@ s @@ d @@ a @@ f :
        c \in CreatedFields, s \in SourceFields, d \in DescriptionFields,
        a \in AiFields, f \in DifficultyFields}

PreviousSources == {None, ""} \cup Sources

InitPriority ==
    /\ QuestIdle
    /\ today = 0
    /\ events = <<>>
    /\ days = 0
    /\ \E quest \in ScoredQuests, previous_source \in PreviousSources :
           result = [op |-> "calculate_priority_score", called |-> FALSE,
                     quest |-> quest, previous_source |-> previous_source,
                     now |-> Now]

\* calculate_priority_score(quest, previous_source)
CalculatePriorityScore ==
    /\ ~result.called
    /\ result' = [result EXCEPT !.called = TRUE] @@
                     [score |-> calculate_priority_score(
                                    result.quest, result.previous_source,
                                    result.now)]
    /\ UNCHANGED <<quests, ideas, ret, prev, today, events, days, commits,
                   achievements>>

NextPriority == CalculatePriorityScore

SpecPriority == InitPriority /\ [][NextPriority]_vars

(***************************************************************************)
(* One call of get_prioritized_quests                                      *)
(***************************************************************************)
MaxStoredQuests == 3    \* most quests of the status asked for

\* the rows of table quests the call finds, without their id
StoredQuestKinds ==
    [title : {"Quest"},
     source : {"github_issue", "todo_scan", "manual"},
     source_ref : {None},
     description : {None, "Some details here"},
     status : {"pending"},
     created_at : {IsoText(Now, " "),
                   IsoText([day |-> Now.day - 5, sec |-> Now.sec], " ")}]

\* the place of a created_at text in time: its second, counted from fifteen
\* days before now
CreatedRank(text) ==
    (FromIso[text].day - (Now.day - 15)) * 86400 + FromIso[text].sec

\* storage.get_quests(status): ORDER BY created_at DESC, the newest row first;
\* ids grow with the time of creation
StoredLists ==
    {[k \in 1..Len(kinds) |-> kinds[k] @@ [id |-> Len(kinds) + 1 - k]] :
        kinds \in {s \in SeqsUpTo(StoredQuestKinds, MaxStoredQuests) :
                      \A k \in 1..(Len(s) - 1) :
                          CreatedRank(s[k].created_at)
                              >= CreatedRank(s[k + 1].created_at)}}

LongList == 7   \* a list long enough for a quest to lie beyond the first five

\* lists of quests of two sources, all created now and with a description,
\* long enough for the remaining quests to outnumber the candidates
LongStoredLists ==
    {[k \in 1..LongList |->
         [title |-> "Quest", source |-> sources[k], source_ref |-> None,
          description |-> "Some details here", status |-> "pending",
          created_at |-> IsoText(Now, " "), id |-> LongList + 1 - k]] :
        sources \in [1..LongList -> {"github_issue", "todo_scan"}]}

Limits == {1, 2, 5}

InitPrioritized ==
    /\ QuestIdle
    /\ today = 0
    /\ events = <<>>
    /\ days = 0
    /\ \E stored \in StoredLists \cup LongStoredLists, limit \in Limits :
           result = [op |-> "get_prioritized_quests", called |-> FALSE,
                     stored |-> stored, limit |-> limit, now |-> Now]

\* get_prioritized_quests(status, limit)
GetPrioritizedQuests ==
    /\ ~result.called
    /\ result' = [result EXCEPT !.called = TRUE] @@
                     [prioritized |-> get_prioritized_quests(
                                          result.stored, result.limit,
                                          result.now)]
    /\ UNCHANGED <<quests, ideas, ret, prev, today, events, days, commits,
                   achievements>>

NextPrioritized == GetPrioritizedQuests

SpecPrioritized == InitPrioritized /\ [][NextPrioritized]_vars

(***************************************************************************)
(* Two synchronisation requests served at the same time.  The endpoints    *)
(* are plain functions, which the server runs on threads; every storage    *)
(* call opens its own connection, so the existence check and the insert of *)
(* one item are two separate statements.  result.calls holds the frame of  *)
(* each call: the operation, its items, the index k of the item at hand,   *)
(* where the call stands, the outcome of its last existence check and its  *)
(* two counters.                                                           *)
(***************************************************************************)
MaxConcurrentItems == 1     \* longest list handed to a concurrent call

\* the source the operation stores and the reference of an item
ItemSource(op) == IF op = "sync_github_issues" THEN "github_issue" ELSE "todo_scan"

ItemRef(op, item) ==
    IF op = "sync_github_issues" THEN Get(item, "html_url", "")
    ELSE TodoSourceRef(item)

\* the loop passes over the item before it looks for a quest
PassedOver(op, item) == op = "sync_github_issues" /\ ~Ingestible(item)

\* the frame after the loop has moved to the item behind k
NextItem(frame) ==
    [frame EXCEPT !.k = @ + 1,
                  !.pc = IF frame.k + 1 > Len(frame.items) THEN "done" ELSE "check"]

\* the start of the loop for an item: continue, or look for the quest of
\* its reference and count the item as skipped when there is one
CheckStep(frame, qs) ==
    LET item == frame.items[frame.k]
    IN  IF PassedOver(frame.op, item) THEN NextItem(frame)
        ELSE IF quest_exists_by_source_ref(qs, ItemSource(frame.op), ItemRef(frame.op, item))
        THEN NextItem([frame EXCEPT !.found = TRUE, !.skipped = @ + 1])
        ELSE [frame EXCEPT !.found = FALSE, !.pc = "insert"]

\* the quest the operation creates for an item
InsertItem(qs, op, item) ==
    IF op = "sync_github_issues"
    THEN create_quest(qs, IssueTitle(item), "github_issue", item.html_url,
                      IssueDescription(item))
    ELSE create_quest(qs, Truncate200("[" \o item.comment_type \o "] " \o item.content),
                      "todo_scan", TodoSourceRef(item), None)

InsertStep_NoCount(frame) == NextItem(frame)

\* the end of the loop for an item that was not found: added += 1
InsertStep(frame) == NextItem([frame EXCEPT !.added = @ + 1])

\* the frame of a call that has just been entered
Entered(op, items) ==
    [op |-> op, items |-> items, k |-> 1,
     pc |-> IF items = <<>> THEN "done" ELSE "check",
     found |-> FALSE, added |-> 0, skipped |-> 0]

InitConcurrent ==
    /\ quests = <<>>
    /\ ideas = <<>>
    /\ ret = NoRet
    /\ prev = NoRet
    /\ StoreIdle
    /\ today = 0
    /\ events = <<>>
    /\ days = 0
    /\ \/ \E a \in SeqsUpTo(FewIssues, MaxConcurrentItems),
             b \in SeqsUpTo(FewIssues, MaxConcurrentItems) :
             result = [op |-> "concurrent_sync",
                       calls |-> <<Entered("sync_github_issues", a),
                                   Entered("sync_github_issues", b)>>]
       \/ \E a \in SeqsUpTo(FewTodos, MaxConcurrentItems),
             b \in SeqsUpTo(FewTodos, MaxConcurrentItems) :
             result = [op |-> "concurrent_sync",
                       calls |-> <<Entered("sync_todo_comments", a),
                                   Entered("sync_todo_comments", b)>>]

\* call c runs quest_exists_by_source_ref for its item
CheckExists(c) ==
    /\ result.calls[c].pc = "check"
    /\ result' = [result EXCEPT !.calls[c] = CheckStep(@, quests)]
    /\ UNCHANGED <<quests, ideas, ret, prev, today, events, days, commits,
                   achievements>>

\* call c runs create_quest for the item it did not find
InsertQuest(c) ==
    /\ result.calls[c].pc = "insert"
    /\ quests' = InsertItem(quests, result.calls[c].op,
                            result.calls[c].items[result.calls[c].k])
    /\ result' = [result EXCEPT !.calls[c] = InsertStep(@)]
    /\ UNCHANGED <<ideas, ret, prev, today, events, days, commits,
                   achievements>>

NextConcurrent ==
    \E c \in 1..2 : CheckExists(c) \/ InsertQuest(c)

SpecConcurrent == InitConcurrent /\ [][NextConcurrent]_vars

(***************************************************************************)
(* Claims about the synchronisations                                       *)
(***************************************************************************)
\* the source_ref values of the last n rows of table quests
LastRefs(n) == { quests[i].source_ref : i \in (Len(quests) - n + 1)..Len(quests) }

\* a call of sync_github_issues has just added one quest for each of its N
\* items, and the step calls it again with items that carry the same N
\* distinct html_url values
GithubResync(issues) ==
    LET N == Len(issues)
        keys == { Get(issues[i], "html_url", "") : i \in 1..N }
    IN  /\ ret.op = "sync_github_issues" /\ ret.added = N /\ ret.skipped = 0
        /\ N >= 1
        /\ \A i \in 1..N : Ingestible(issues[i])
        /\ Cardinality(keys) = N
        /\ keys = LastRefs(N)
        /\ SyncGithubIssues(issues)

\* the same for sync_todo_comments and file:line
TodoResync(todos) ==
    LET N == Len(todos)
        keys == { TodoSourceRef(todos[i]) : i \in 1..N }
    IN  /\ ret.op = "sync_todo_comments" /\ ret.added = N /\ ret.skipped = 0
        /\ N >= 1
        /\ Cardinality(keys) = N
        /\ keys = LastRefs(N)
        /\ SyncTodoComments(todos)

\* C1: a second synchronisation of the same N distinct reference keys, whatever
\* the titles, bodies or contents its items now carry, returns added = 0 and
\* skipped = N and leaves table quests as it was.  (N is the added count of
\* the first call, so the lists of N items are the ones to look at.)
C1_ResyncIsIdempotent ==
    [][ /\ ret.op = "sync_github_issues" =>
              \A issues \in [1..ret.added -> IssuePool] :
                  GithubResync(issues) =>
                      /\ ret'.added = 0 /\ ret'.skipped = Len(issues)
                      /\ quests' = quests
        /\ ret.op = "sync_todo_comments" =>
              \A todos \in [1..ret.added -> TodoPool] :
                  TodoResync(todos) =>
                      /\ ret'.added = 0 /\ ret'.skipped = Len(todos)
                      /\ quests' = quests ]_vars

\* C1 witness: a call of sync_github_issues that added two quests and skipped
\* none was followed by one given two items that added none and skipped two.
C1_Witness ==
    /\ prev.op = "sync_github_issues" /\ prev.added = 2 /\ prev.skipped = 0
    /\ ret.op = "sync_github_issues" /\ ret.n = 2
    /\ ret.added = 0 /\ ret.skipped = 2
    /\ Len(quests) = 2

\* a quest with this source and source_ref is stored, whatever its status
Stored(source, source_ref) ==
    \E k \in 1..Len(quests) :
        quests[k].source = source /\ quests[k].source_ref = source_ref

NoDuplicateRefs ==
    \A i, j \in 1..Len(quests) :
        (/\ i < j
         /\ quests[i].source \in {"github_issue", "todo_scan"}
         /\ quests[i].source = quests[j].source)
        => quests[i].source_ref # quests[j].source_ref

\* a synchronisation leaves the stored rows as they are, adds no row whose
\* reference is stored, adds as many rows as it counts in added, and counts
\* each item that has a reference in added or in skipped
StoredAreSkipped ==
    ret'.op \in {"sync_github_issues", "sync_todo_comments"} =>
        /\ SubSeq(quests', 1, Len(quests)) = quests
        /\ \A k \in (Len(quests) + 1)..Len(quests') :
              ~Stored(quests'[k].source, quests'[k].source_ref)
        /\ Len(quests') = Len(quests) + ret'.added
        /\ ret'.added + ret'.skipped = ret'.plain

\* C2: whatever synchronisations, accepts, completions and skips have run, no
\* two stored quests of source github_issue or todo_scan share a source_ref;
\* a synchronisation never adds a quest for a reference that is stored, in
\* whatever status, and so counts its item as skipped.
C2_NoDuplicateSyncedQuests ==
    []NoDuplicateRefs /\ [][StoredAreSkipped]_vars

\* C2 witness: the only stored quest was synced and has left status pending,
\* and the last call, a synchronisation, skipped its item and added nothing.
C2_Witness ==
    /\ Len(quests) = 1
    /\ quests[1].source \in {"github_issue", "todo_scan"}
    /\ quests[1].status \in {"active", "completed", "skipped", "archived"}
    /\ ret.op \in {"sync_github_issues", "sync_todo_comments"}
    /\ ret.added = 0 /\ ret.skipped >= 1

\* C3: sync_github_issues counts in added or skipped exactly the items that
\* carry no pull_request key and a non-empty html_url, and the number of
\* stored quests grows by added.
C3_PullRequestsAreIgnored ==
    [][ ret'.op = "sync_github_issues" =>
          /\ ret'.added + ret'.skipped = ret'.plain
          /\ Len(quests') = Len(quests) + ret'.added ]_vars

\* C3 witness: a call given two items, one of them a pull request, added one
\* quest to the empty store and skipped none.
C3_Witness ==
    /\ ret.op = "sync_github_issues"
    /\ ret.n = 2 /\ ret.prs = 1
    /\ ret.added = 1 /\ ret.skipped = 0
    /\ Len(quests) = 1

(***************************************************************************)
(* Claims about calculate_streak                                           *)
(***************************************************************************)
\* the days on which the event list has a commit
CommitDays ==
    {n \in StreakWindow :
        \E i \in 1..Len(events) : EventDate(events[i]) = DateText[n]}

\* every event carries a calendar date, or no date, or the sentinel
OnlyValidDates ==
    \A i \in 1..Len(events) :
        \/ ~Truthy(EventDate(events[i]))
        \/ EventDate(events[i]) = "unknown"
        \/ \E n \in StreakWindow : EventDate(events[i]) = DateText[n]

TodayDay == CHOOSE n \in StreakWindow : DateText[n] = today

MostRecentDay == CHOOSE d \in CommitDays : \A n \in CommitDays : n <= d

\* the number of days of the unbroken run of commit days that ends on day d
RunEndingOn(d) ==
    CHOOSE k \in 1..Cardinality(CommitDays) :
        /\ \A j \in 0..(k - 1) : (d - j) \in CommitDays
        /\ (d - k) \notin CommitDays

\* C4: on valid commit dates current_streak is 0 when the most recent date is
\* neither today nor the day before today; otherwise it is the largest k such
\* that the most recent date and the k-1 days before it are all commit days.
C4_CurrentStreak ==
    (OnlyValidDates /\ CommitDays # {}) =>
        /\ ~result.raised
        /\ result.current_streak =
               IF MostRecentDay \notin {TodayDay, TodayDay - 1} THEN 0
               ELSE RunEndingOn(MostRecentDay)

\* the run of two days ends yesterday, an older day lies behind a gap
C4_Witness ==
    /\ OnlyValidDates
    /\ Cardinality(CommitDays) = 3
    /\ MostRecentDay = TodayDay - 1
    /\ result.current_streak = 2

\* C5: whatever the input, the longest_streak that calculate_streak returns is
\* at least the current_streak it returns.
C5_LongestAtLeastCurrent ==
    ~result.raised => result.longest_streak >= result.current_streak

\* the current streak is two days long and no run is longer
C5_Witness ==
    /\ ~result.raised
    /\ result.current_streak = 2
    /\ result.longest_streak = 2
    /\ Cardinality(CommitDays) >= 3

\* the length of the longest unbroken run of commit days
LongestRun ==
    IF CommitDays = {} THEN 0
    ELSE CHOOSE k \in 1..Cardinality(CommitDays) :
             /\ \E d \in CommitDays : RunEndingOn(d) = k
             /\ \A d \in CommitDays : RunEndingOn(d) <= k

\* C6: on valid commit dates longest_streak is the length of the longest run
\* of consecutive days in the set of dates (0 for none, 1 for a single date),
\* whatever today is and however often a date is repeated.
C6_LongestStreak ==
    OnlyValidDates =>
        /\ ~result.raised
        /\ result.longest_streak = LongestRun

\* a date is repeated, the longest run of three days ended before yesterday
C6_Witness ==
    /\ OnlyValidDates
    /\ Cardinality(CommitDays) < Len(events)
    /\ result.longest_streak = 3
    /\ result.current_streak = 0
(***************************************************************************)
(* Claims about calculate_stats                                            *)
(***************************************************************************)
\* the day each date text of the runs stands for
DayOfText ==
    [s \in {DateText[n] : n \in ModelDays} |->
        CHOOSE n \in ModelDays : DateText[n] = s]

\* the event carries a calendar date
IsDated(event) == EventDate(event) \in DOMAIN DayOfText

\* the sum of commit_count over the events of seq dated on one of the days
RECURSIVE CommitsOn(_, _)
CommitsOn(seq, dayset) ==
    IF seq = <<>> THEN 0
    ELSE IfThen(IsDated(Head(seq))
                /\ DayOfText[EventDate(Head(seq))] \in dayset,
                Get(Head(seq), "commit_count", 0))
         + CommitsOn(Tail(seq), dayset)

\* the events that carry a calendar date, in their order
RECURSIVE Dated(_)
Dated(seq) ==
    IF seq = <<>> THEN <<>>
    ELSE IF IsDated(Head(seq)) THEN <<Head(seq)>> \o Dated(Tail(seq))
    ELSE Dated(Tail(seq))

\* the reference date of the run, read off its text
TodayYear == StrToNat(SubSeq(today, 1, 4))

TodayMonth == StrToNat(SubSeq(today, 6, 7))

TodayOfMonth == StrToNat(SubSeq(today, 9, 10))

StatsToday == ToOrdinal(TodayYear, TodayMonth, TodayOfMonth)

\* C7: total_commits is the sum of commit_count over the events whose date
\* parses as a calendar date, whatever today is; events with a missing, empty,
\* 'unknown' or unparseable date add nothing to any counter.
C7_TotalCommits ==
    /\ result.total_commits = CommitsOn(events, ModelDays)
    /\ result = calculate_stats(Dated(events), today)

\* a dated event of two commits and an event with an unparseable date
C7_Witness ==
    /\ Len(events) = 2
    /\ Len(Dated(events)) = 1
    /\ \E i \in 1..2 : EventDate(events[i]) = "2026-02-30"
    /\ result.total_commits = 2

\* the days of the calendar month of today
ThisMonth ==
    ToOrdinal(TodayYear, TodayMonth, 1)
        ..ToOrdinal(TodayYear, TodayMonth, DaysInMonth(TodayYear, TodayMonth))

\* C8: commits_this_month is the sum of commit_count over the events dated in
\* the same year and the same month as today, and no others.
C8_ThisMonth == result.commits_this_month = CommitsOn(events, ThisMonth)

\* a Monday
Monday == ToOrdinal(2025, 12, 29)

\* the Monday on or before today
ThisMonday ==
    CHOOSE n \in (StatsToday - 6)..StatsToday : (n - Monday) % 7 = 0

\* C9: commit_count goes to commits_today iff the date is today, to
\* commits_this_week iff it lies between the Monday on or before today and the
\* Sunday after that Monday, to commits_last_7_days iff it lies in
\* [today-6, today] and to commits_last_30_days iff it lies in [today-29, today].
C9_Periods ==
    /\ result.commits_today = CommitsOn(events, {StatsToday})
    /\ result.commits_this_week
           = CommitsOn(events, ThisMonday..(ThisMonday + 6))
    /\ result.commits_last_7_days
           = CommitsOn(events, (StatsToday - 6)..StatsToday)
    /\ result.commits_last_30_days
           = CommitsOn(events, (StatsToday - 29)..StatsToday)

\* on 2026-01-01 a commit of the Sunday to come counts for the week only and
\* a commit of 2025-12-03 for the last 30 days only
C9_Witness ==
    /\ today = "2026-01-01"
    /\ result.commits_today = 0
    /\ result.commits_this_week >= 1
    /\ result.commits_last_7_days = 0
    /\ result.commits_last_30_days >= 1
    /\ result.total_commits
           = result.commits_this_week + result.commits_last_30_days

(***************************************************************************)
(* Claims about calculate_history                                          *)
(***************************************************************************)
\* C10: for days >= 1 calculate_history returns exactly days entries, dated
\* with the consecutive days from today-(days-1) to today in strictly
\* ascending order; period.start is the first of these dates, period.end is
\* today and period.total_days is days.
C10_HistoryDays ==
    days >= 1 =>
        /\ Len(result.days) = days
        /\ \A k \in 1..days :
               Strptime[result.days[k].date] = today - (days - 1) + (k - 1)
        /\ \A k \in 1..(days - 1) :
               StrLess(result.days[k].date, result.days[k + 1].date)
        /\ result.period.start = result.days[1].date
        /\ Strptime[result.period.end] = today
        /\ result.period.total_days = days

\* three days that end on New Year's Day
C10_Witness ==
    /\ days = 3
    /\ today = ToOrdinal(2026, 1, 1)
    /\ events # <<>>
    /\ result.days[1].date = "2025-12-30"
    /\ result.days[3].date = "2026-01-01"

\* the days of the window of the run
HistoryWindow == (today - (days - 1))..today

\* the events dated inside the window, in their order
RECURSIVE InWindow(_)
InWindow(seq) ==
    IF seq = <<>> THEN <<>>
    ELSE IF IsDated(Head(seq)) /\ DayOfText[EventDate(Head(seq))] \in HistoryWindow
    THEN <<Head(seq)>> \o InWindow(Tail(seq))
    ELSE InWindow(Tail(seq))

\* C11: each day's count is the sum of commit_count over the events dated on
\* that day (0 when there is none) and max_count is the greatest count of the
\* days of the window; events dated outside the window or without a date
\* change no count and do not change max_count.
C11_HistoryCounts ==
    /\ \A k \in 1..Len(result.days) :
           result.days[k].count
               = CommitsOn(events, {today - (days - 1) + (k - 1)})
    /\ \A n \in HistoryWindow : CommitsOn(events, {n}) <= result.max_count
    /\ \/ \E n \in HistoryWindow : CommitsOn(events, {n}) = result.max_count
       \/ result.max_count = 0
    /\ result = calculate_history(InWindow(events), days, today)

\* three commits on the day before the window, one commit inside it
C11_Witness ==
    /\ days = 2
    /\ Len(events) = 2
    /\ CommitsOn(events, {today - 2}) = 3
    /\ CommitsOn(events, HistoryWindow) = 1
    /\ result.max_count = 1

(***************************************************************************)
(* Claims about the achievements                                           *)
(***************************************************************************)
\* the achievement is not unlocked and its threshold is met by the arguments
\* of the call
Due(a) ==
    /\ a.id \notin result.unlocked_ids
    /\ a.category = "streak" => result.longest_streak >= a.threshold
    /\ a.category = "commits" => result.total_commits >= a.threshold

\* C12: check_achievements returns exactly the definitions whose id is not in
\* unlocked_ids and whose threshold is met (longest_streak for a streak
\* achievement, total_commits for a commits achievement), whatever
\* current_streak is, streak achievements first and each category by
\* ascending threshold.
C12_CheckAchievements ==
    result.called =>
        LET got == result.newly_unlocked
        IN  /\ \A k \in 1..Len(ACHIEVEMENTS) :
                   Due(ACHIEVEMENTS[k])
                       <=> \E i \in 1..Len(got) : got[i] = ACHIEVEMENTS[k]
            /\ \A i \in 1..Len(got) :
                   \E k \in 1..Len(ACHIEVEMENTS) : got[i] = ACHIEVEMENTS[k]
            /\ \A i, j \in 1..Len(got) :
                   i < j =>
                       \/ got[i].category = "streak" /\ got[j].category = "commits"
                       \/ /\ got[i].category = got[j].category
                          /\ got[i].threshold < got[j].threshold

\* a longest streak of 7 with no current streak, streak_3 and first_commit
\* unlocked before: streak_7 and commits_10 are returned, in this order
C12_Witness ==
    /\ result.called
    /\ result.current_streak = 0
    /\ result.longest_streak = 7
    /\ result.total_commits = 10
    /\ result.unlocked_ids = {"streak_3", "first_commit"}
    /\ Len(result.newly_unlocked) = 2
    /\ result.newly_unlocked[1].id = "streak_7"
    /\ result.newly_unlocked[2].id = "commits_10"

\* table achievements holds a row for the id
Unlocked(rows, id) == \E i \in 1..Len(rows) : rows[i].id = id

\* the entry of the status view for the id
StatusOf(status, id) == status[CHOOSE k \in 1..Len(status) : status[k].id = id]

\* the last call was _fetch_stats_data, made today on the tables as they are
Computed ==
    result.op = "_fetch_stats_data" /\ result.today = today /\ ~result.raised

\* a computation reports a streak achievement as unlocked when it sees a
\* longest streak at the threshold, and whenever the table holds its row
ReportedUnlocked ==
    Computed =>
        \A k \in 1..Len(STREAK_ACHIEVEMENTS) :
            LET a == STREAK_ACHIEVEMENTS[k]
            IN  /\ result.longest_streak >= a.threshold
                       => StatusOf(result.achievements, a.id).unlocked
                /\ Unlocked(achievements, a.id)
                       <=> StatusOf(result.achievements, a.id).unlocked

\* only reset_achievements takes a row out of the table
RowsStay ==
    result'.op # "reset_achievements" =>
        \A i \in 1..Len(achievements) : Unlocked(achievements', achievements[i].id)

\* C13: with no reset_achievements in between, once a computation has seen
\* longest_streak >= T for a streak achievement of threshold T, that
\* computation and every later one report it as unlocked, also when the later
\* one sees a current_streak below T.
C13_UnlockedStays == []ReportedUnlocked /\ [][RowsStay]_vars

\* streak_3 was unlocked on an earlier day; today's computation sees no
\* current streak and reports it unlocked
C13_Witness ==
    /\ Computed
    /\ result.current_streak = 0
    /\ result.longest_streak = 3
    /\ StatusOf(result.achievements, "streak_3").unlocked
    /\ StatusOf(result.achievements, "streak_3").unlocked_at # today

\* no two rows of table achievements share an id
OneRowPerId ==
    \A i, j \in 1..Len(achievements) :
        achievements[i].id = achievements[j].id => i = j

\* a call of save_achievement for a new id returns true and adds the row with
\* the value given; for a stored id it returns false and changes nothing
SaveOnce ==
    (result'.op = "save_achievement" /\ result' # result) =>
        IF Unlocked(achievements, result'.id)
        THEN ~result'.saved /\ achievements' = achievements
        ELSE /\ result'.saved
             /\ achievements' = Append(achievements,
                    [id |-> result'.id, unlocked_at |-> today,
                     unlocked_value |-> result'.value])

\* C14: there is at most one unlock record per achievement id; the first
\* save_achievement(id, v) returns true and stores v, every later one for the
\* same id returns false and leaves unlocked_at and unlocked_value as stored.
C14_SaveAchievementOnce == []OneRowPerId /\ [][SaveOnce]_vars

\* a second save for streak_3, on a later day and with another value, was
\* refused
C14_Witness ==
    /\ result.op = "save_achievement"
    /\ result.id = "streak_3"
    /\ ~result.saved
    /\ \E i \in 1..Len(achievements) :
           /\ achievements[i].id = "streak_3"
           /\ achievements[i].unlocked_value # result.value
           /\ achievements[i].unlocked_at # today

(***************************************************************************)
(* Claims about the commits table and the parser                           *)
(***************************************************************************)
\* no two rows of table commits share date, repo and sha
OneRowPerCommit ==
    \A i, j \in 1..Len(commits) :
        (/\ commits[i].date = commits[j].date
         /\ commits[i].repo = commits[j].repo
         /\ commits[i].sha = commits[j].sha) => i = j

RECURSIVE SumOfCounts(_)
SumOfCounts(commit_events) ==
    IF commit_events = <<>> THEN 0
    ELSE Head(commit_events).commit_count + SumOfCounts(Tail(commit_events))

\* the total commit count of the history get_all_commits reads
TotalRead(rows) == SumOfCounts(get_all_commits(rows))

\* save_commits has returned the number of rows it added
ReturnsInserted ==
    result.op = "save_commits" =>
        result.inserted = Len(commits) - result.before

\* calling save_commits once more with the input of the last call would add
\* nothing and return 0
SavedAlready ==
    result.op = "save_commits" =>
        save_commits(commits, result.commit_events)
            = [rows |-> commits, inserted |-> 0]

\* a call of save_commits that follows a call with the same input returns 0
\* and leaves the rows and the total read by get_all_commits as they were
SecondSave ==
    (/\ result.op = "save_commits"
     /\ result'.op = "save_commits"
     /\ result'.commit_events = result.commit_events
     /\ result' # result)
        => /\ result'.inserted = 0
           /\ commits' = commits
           /\ TotalRead(commits') = TotalRead(commits)

\* C15: table commits holds at most one row per (date, repo, sha);
\* save_commits returns the number of rows it inserted; a second call with the
\* same input returns 0 and leaves the rows and the total commit count read
\* by get_all_commits unchanged.
C15_SaveCommitsOnce ==
    /\ [](OneRowPerCommit /\ ReturnsInserted /\ SavedAlready)
    /\ [][SecondSave]_vars

\* the list with the commit a1b2c3d twice in one event was saved a second
\* time: it added one row the first time, none now
C15_Witness ==
    /\ result.op = "save_commits"
    /\ Len(result.commit_events) = 1
    /\ "commits" \in DOMAIN result.commit_events[1]
    /\ "date" \in DOMAIN result.commit_events[1]
    /\ Len(result.commit_events[1].commits) = 2
    /\ result.commit_events[1].commits[1] = result.commit_events[1].commits[2]
    /\ result.inserted = 0
    /\ result.before = Len(commits)
    /\ \E i \in 1..Len(commits) :
           /\ commits[i].date = result.commit_events[1].date
           /\ commits[i].repo = result.commit_events[1].repo
           /\ commits[i].sha = "a1b2c3d"
    /\ TotalRead(commits) = Len(commits)

\* the positions of the PushEvents in an API response
PushIndexes(api_events) ==
    {k \in 1..Len(api_events) :
        "type" \in DOMAIN api_events[k] /\ api_events[k].type = "PushEvent"}

\* the position of the j-th PushEvent
PushAt(api_events, j) ==
    CHOOSE k \in PushIndexes(api_events) :
        Cardinality({i \in PushIndexes(api_events) : i < k}) = j - 1

\* the commit list of an API event
CommitList(event) ==
    IF "payload" \in DOMAIN event /\ "commits" \in DOMAIN event.payload
    THEN event.payload.commits ELSE <<>>

\* size when the payload declares it, else the length of a non-empty commit
\* list, else 1
DeclaredCount(event) ==
    IF "payload" \in DOMAIN event /\ "size" \in DOMAIN event.payload
    THEN event.payload.size
    ELSE IF CommitList(event) # <<>> THEN Len(CommitList(event))
    ELSE 1

\* the parsed event stands for the API event: its repository and day when
\* the API event names them, its commits, and the count above
ParsedFrom(parsed, event) ==
    /\ ("repo" \in DOMAIN event /\ "name" \in DOMAIN event.repo)
           => parsed.repo = event.repo.name
    /\ ("created_at" \in DOMAIN event /\ event.created_at # "")
           => parsed.date \o SubSeq(event.created_at, 11, Len(event.created_at))
                  = event.created_at
    /\ Len(parsed.commits) = Len(CommitList(event))
    /\ parsed.commit_count = DeclaredCount(event)

\* C16: parse_commit_events returns one event for each input record of type
\* PushEvent and none for the others, in input order, also when the record
\* lacks the repository name or the timestamp; commit_count is the payload's
\* size when declared, else the length of a non-empty commit list, else 1.
C16_ParseCommitEvents ==
    (result.op = "parse_commit_events" /\ result.called) =>
        /\ Len(result.commit_events) = Cardinality(PushIndexes(result.api_events))
        /\ \A j \in 1..Len(result.commit_events) :
               ParsedFrom(result.commit_events[j],
                          result.api_events[PushAt(result.api_events, j)])

\* an event of another type is followed by a push without timestamp, and a
\* response holds a push that declares more commits than it lists
C16_Witness ==
    /\ result.op = "parse_commit_events" /\ result.called
    /\ Len(result.api_events) = 2
    /\ Len(result.commit_events) = 1
    /\ PushIndexes(result.api_events) = {2}
    /\ "created_at" \notin DOMAIN result.api_events[2]
    /\ result.commit_events[1].date = "unknown"
    /\ result.commit_events[1].commit_count = 1
    /\ result.commit_events[1].commits[1].sha = "fedcba9"

(***************************************************************************)
(* Claims about the quest priorities                                       *)
(***************************************************************************)
\* the moment a created_at text of the runs was written for
CreatedMoment ==
    [s \in CreatedTexts |->
        CHOOSE t \in Moments :
            \/ s = IsoText(t, " ")
            \/ s = IsoText(t, "T")
            \/ t.sec = 0 /\ s = isoformat(t.day)]

\* the whole days from a moment to now
WholeDaysSince(t, now) ==
    ((now.day - t.day) * 86400 + (now.sec - t.sec)) \div 86400

\* a call of calculate_priority_score has returned
Scored == result.op = "calculate_priority_score" /\ result.called

\* the quest carries a created_at that names a moment and one of the four
\* sources
Dateable ==
    /\ "created_at" \in DOMAIN result.quest
    /\ result.quest.created_at \in CreatedTexts
    /\ "source" \in DOMAIN result.quest
    /\ result.quest.source \in Sources

HasDescription ==
    /\ "description" \in DOMAIN result.quest
    /\ result.quest.description \notin {None, ""}

HasAiDescription ==
    /\ "ai_description" \in DOMAIN result.quest
    /\ result.quest.ai_description \notin {None, ""}

HasMediumDifficulty ==
    "difficulty" \in DOMAIN result.quest /\ result.quest.difficulty \in {2, 3}

\* the age, source, description and variety terms
BaseTerms ==
    LET age == WholeDaysSince(CreatedMoment[result.quest.created_at], result.now)
    IN  (IF age < 10 THEN age ELSE 10)
        + (CASE result.quest.source = "github_issue" -> 3
             [] result.quest.source = "todo_scan" -> 2
             [] result.quest.source = "ideas_md" -> 1
             [] result.quest.source = "manual" -> 0)
        + (IF HasDescription THEN 2 ELSE 0)
        + (IF /\ result.previous_source \notin {None, ""}
              /\ result.previous_source # result.quest.source
           THEN 3 ELSE 0)

\* C17: the score of a quest holds an age term min(whole days since
\* created_at, 10), a source term of 3 for github_issue, 2 for todo_scan, 1
\* for ideas_md and 0 for manual, 2 when the description is non-empty, and 3
\* when a previous_source is given and differs from the quest's source; a
\* quest without AI fields scores exactly these terms.
C17_PriorityTerms ==
    (Scored /\ Dateable) =>
        /\ result.score >= BaseTerms
        /\ (~HasAiDescription /\ "difficulty" \notin DOMAIN result.quest)
               => result.score = BaseTerms

\* a GitHub issue with a description, created fifteen days ago and scored
\* after a manual quest: 10 + 3 + 2 + 3
C17_Witness ==
    /\ Scored /\ Dateable
    /\ WholeDaysSince(CreatedMoment[result.quest.created_at], result.now) = 15
    /\ result.quest.source = "github_issue"
    /\ HasDescription
    /\ result.previous_source = "manual"
    /\ result.score = 18

\* C18: the score holds 1 more for a quest with an AI-generated description
\* and 1 more for a quest whose AI difficulty rating is 2 or 3.
C18_AiBonus ==
    (Scored /\ Dateable) =>
        result.score = BaseTerms
                       + (IF HasAiDescription THEN 1 ELSE 0)
                       + (IF HasMediumDifficulty THEN 1 ELSE 0)

\* C19: the list get_prioritized_quests returns is sorted by the attached
\* priority_score in descending order: the score of each returned quest is
\* at least the score of the quest that follows it.
C19_SortedByScore ==
    (result.op = "get_prioritized_quests" /\ result.called) =>
        \A k \in 1..(Len(result.prioritized) - 1) :
            result.prioritized[k].priority_score
                >= result.prioritized[k + 1].priority_score

(***************************************************************************)
(* Claims about the lifecycle of quests                                    *)
(***************************************************************************)
QuestStatuses == {"pending", "active", "completed", "skipped", "archived"}

\* the status of every stored quest is one of the five
StatusesKnown ==
    \A i \in 1..Len(quests) : quests[i].status \in QuestStatuses

\* the quests a step adds are pending
CreatedPending ==
    \A i \in (Len(quests) + 1)..Len(quests') : quests'[i].status = "pending"

\* the status the quest of this id has after the step
StatusAfter(quest_id) == quests'[QuestIndex(quests', quest_id)].status

\* accept_quest, complete_quest and skip_quest on a stored quest succeed and
\* leave it active, completed, and archived or skipped by the action
StatusSet ==
    \A quest_id \in 1..Len(quests) :
        /\ (ret'.op = "accept_quest" /\ AcceptQuest(quest_id))
               => ret'.ok /\ StatusAfter(quest_id) = "active"
        /\ (ret'.op = "complete_quest" /\ CompleteQuest(quest_id))
               => ret'.ok /\ StatusAfter(quest_id) = "completed"
        /\ \A action \in {"archive", "skip", "later"}, save_as_idea \in BOOLEAN :
               (ret'.op = "skip_quest" /\ SkipQuest(quest_id, action, save_as_idea))
                   => /\ ret'.ok
                      /\ StatusAfter(quest_id)
                             = (IF action = "archive" THEN "archived"
                                ELSE "skipped")

\* C20: every quest is created pending; on a stored quest, whatever its
\* status, accept_quest leaves it active, complete_quest completed, and
\* skip_quest archived for the action 'archive' and skipped for any other;
\* the status of every quest is always one of pending, active, completed,
\* skipped, archived.
C20_QuestLifecycle ==
    /\ []StatusesKnown
    /\ [][CreatedPending /\ StatusSet]_vars

\* the first quest was archived and saved as an idea, the idea was promoted
\* to a second quest, which was skipped, and the first quest was then
\* accepted
C20_Witness ==
    /\ ret.op = "accept_quest" /\ ret.ok
    /\ Len(quests) = 2 /\ Len(ideas) = 1
    /\ quests[1].status = "active"
    /\ quests[2].source = "ideas_md"
    /\ quests[2].status = "skipped"
    /\ ideas[1].status = "promoted"

\* ---- C21 ----
\* ids the lifecycle operations may be handed: those stored and two beyond
LifecycleIds == 1..(MaxLifecycleQuests + 2)

NoQuest(quest_id) == \A i \in 1..Len(quests) : quests[i].id # quest_id

NoIdea(idea_id) == \A i \in 1..Len(ideas) : ideas[i].id # idea_id

TablesStay == quests' = quests /\ ideas' = ideas

\* C21: on an id that is not stored accept_quest and complete_quest return
\* None, skip_quest returns success False with an error text (with and
\* without save_as_idea) and promote_idea_to_quest returns None; no quest and
\* no idea is created or modified
C21_MissingId ==
    [][\A id \in LifecycleIds :
         /\ (/\ ret'.op \in {"accept_quest", "complete_quest"}
             /\ NoQuest(id)
             /\ (AcceptQuest(id) \/ CompleteQuest(id)))
                => (~ret'.ok /\ TablesStay)
         /\ \A action \in {"archive", "skip", "later"}, save_as_idea \in BOOLEAN :
                (ret'.op = "skip_quest" /\ NoQuest(id) /\ SkipQuest(id, action, save_as_idea))
                => /\ ~ret'.ok
                   /\ "error" \in DOMAIN ret' /\ Truthy(ret'.error)
                   /\ "idea" \notin DOMAIN ret'
                   /\ TablesStay
         /\ (ret'.op = "promote_idea_to_quest" /\ NoIdea(id) /\ PromoteIdeaToQuest(id))
                => (~ret'.ok /\ TablesStay)]_vars

\* skip_quest has reported a missing quest on a store that holds quests
C21_Witness ==
    /\ ret.op = "skip_quest" /\ ~ret.ok /\ "error" \in DOMAIN ret
    /\ Len(quests) >= 1

\* ---- C22 ----
\* the quests promoted from idea idea_id
PromotedQuests(qs, idea_id) ==
    { i \in 1..Len(qs) : qs[i].source = "ideas_md" /\
                          qs[i].source_ref = "idea:" \o ToString(idea_id) }

IdeaIds == 1..(MaxIdeas + 1)

\* C22: a promote_idea_to_quest call on a stored idea leaves that idea
\* promoted with exactly one quest of source ideas_md and source_ref
\* 'idea:<id>', also when the idea was promoted before, and gives no other
\* idea a quest
C22_PromotedOnce ==
    [][\A idea_id \in IdeaIds :
         (~NoIdea(idea_id) /\ PromoteIdeaToQuest(idea_id))
         => /\ ideas'[IdeaIndex(ideas', idea_id)].status = "promoted"
            /\ Cardinality(PromotedQuests(quests', idea_id)) = 1
            /\ \A other \in IdeaIds \ {idea_id} :
                  PromotedQuests(quests', other) = PromotedQuests(quests, other)]_vars

\* ---- C23 ----
\* C23: an idea has status promoted exactly when a quest with source ideas_md
\* and source_ref 'idea:<id>' is stored
C23_PromotedIffQuest ==
    \A i \in 1..Len(ideas) :
        (ideas[i].status = "promoted") <=> (PromotedQuests(quests, ideas[i].id) # {})

\* ---- C24 ----
\* the columns of a quest other than status
Provenance(quest) ==
    <<quest.id, quest.source, quest.source_ref, quest.title, quest.description>>

\* every stored quest is still stored, with the columns it was created with
ProvenanceStays ==
    /\ Len(quests') >= Len(quests)
    /\ \A i \in 1..Len(quests) : Provenance(quests'[i]) = Provenance(quests[i])

\* the quests other than quest_id are as they were
OthersStay(quest_id) ==
    \A i \in 1..Len(quests) : quests[i].id # quest_id => quests'[i] = quests[i]

\* no stored quest has changed
StoredStay == \A i \in 1..Len(quests) : quests'[i] = quests[i]

\* C24: no operation changes the source, source_ref, title or description of
\* a stored quest; accept_quest, complete_quest and skip_quest change nothing
\* but the status of the quest they address, and promote_idea_to_quest,
\* sync_github_issues and sync_todo_comments change no stored quest
C24_QuestFrame ==
    [][/\ ProvenanceStays
       /\ ret'.op \in {"accept_quest", "complete_quest", "skip_quest"} =>
            \A id \in LifecycleIds :
               (\/ ret'.op = "accept_quest" /\ AcceptQuest(id)
                \/ ret'.op = "complete_quest" /\ CompleteQuest(id)
                \/ /\ ret'.op = "skip_quest"
                   /\ \E action \in {"archive", "skip", "later"}, save_as_idea \in BOOLEAN :
                         SkipQuest(id, action, save_as_idea))
               => OthersStay(id)
       /\ ret'.op \in {"promote_idea_to_quest", "sync_github_issues",
                       "sync_todo_comments"} => StoredStay]_vars

\* two quests are stored, the last operation was a skip and they differ in
\* status
C24_Witness ==
    /\ Len(quests) = 2
    /\ ret.op = "skip_quest" /\ ret.ok
    /\ quests[1].status # quests[2].status

\* ---- C25 ----
\* the event carries a calendar date
HasDay(event) == \E n \in StreakWindow : EventDate(event) = DateText[n]

\* C25: calculate_streak raises no error on events whose date is missing,
\* empty, 'unknown' or malformed; its result is the one it computes from the
\* events that carry a calendar date
C25_DirtyDatesSkipped ==
    /\ ~result.raised
    /\ result = calculate_streak(SelectSeq(events, HasDay), today)

\* ---- C29 ----
\* C29: when the commit dates are calendar dates and today is one of them,
\* current_streak is at least 1, whatever the other dates are
C29_TodayCounts ==
    (OnlyValidDates /\ TodayDay \in CommitDays) =>
        (~result.raised /\ result.current_streak >= 1)

\* ---- C26 ----
\* the base score of the stored quest at place i of the list get_quests
\* returned
BaseScore(i) == calculate_priority_score(result.stored[i], None, result.now)

\* stored quest i is ranked before stored quest j by base score; quests of
\* equal base score keep the order of the list
RankedBefore(i, j) ==
    BaseScore(i) > BaseScore(j) \/ (BaseScore(i) = BaseScore(j) /\ i < j)

\* the stored quests not picked before pick k
Remaining(k) ==
    {i \in 1..Len(result.stored) :
        \A j \in 1..(k - 1) : result.prioritized[j].id # result.stored[i].id}

\* the at most five remaining quests of highest base score
Candidates(k) ==
    {i \in Remaining(k) :
        Cardinality({j \in Remaining(k) : RankedBefore(j, i)}) < 5}

\* the adjusted score of stored quest i at pick k
Adjusted(k, i) ==
    BaseScore(i) +
    (IF k > 1 /\ result.stored[i].source # result.prioritized[k - 1].source
     THEN 3 ELSE 0)

\* the place in the stored list of the quest picked k-th, 0 when it is not a
\* stored quest
PickOf(k) ==
    IF \E i \in 1..Len(result.stored) : result.stored[i].id = result.prioritized[k].id
    THEN CHOOSE i \in 1..Len(result.stored) : result.stored[i].id = result.prioritized[k].id
    ELSE 0

\* C26: get_prioritized_quests returns min(limit, n) distinct quests of the n
\* stored ones; the first has the maximum base score; every later one is, of
\* the at most five remaining quests of highest base score, the one of
\* greatest adjusted score (base plus 3 when its source differs from that of
\* the pick before), the earlier ranked of equals; priority_score is the
\* adjusted score
C26_VarietySelection ==
    (result.op = "get_prioritized_quests" /\ result.called) =>
        /\ Len(result.prioritized) = Min(result.limit, Len(result.stored))
        /\ \A k \in 1..Len(result.prioritized) :
              LET p == PickOf(k)
              IN  /\ p \in Candidates(k)
                  /\ result.prioritized[k] =
                        result.stored[p] @@ [priority_score |-> Adjusted(k, p)]
                  /\ \A i \in Candidates(k) \ {p} :
                        \/ Adjusted(k, i) < Adjusted(k, p)
                        \/ Adjusted(k, i) = Adjusted(k, p) /\ RankedBefore(p, i)
                  /\ k = 1 => \A i \in 1..Len(result.stored) :
                                  BaseScore(i) <= BaseScore(p)

\* at the second pick a quest beyond the five candidates had a greater
\* adjusted score than the quest picked
C26_Witness ==
    /\ result.op = "get_prioritized_quests" /\ result.called
    /\ Len(result.prioritized) >= 3
    /\ \E i \in Remaining(2) \ Candidates(2) :
          Adjusted(2, i) > result.prioritized[2].priority_score

\* ---- C27 ----
\* the content of the idea a skipped quest is saved as
SavedContent(quest) ==
    IF quest.description \notin {None, ""}
    THEN quest.title \o " - " \o quest.description
    ELSE quest.title

\* table ideas has one more row, the last, and its other rows are as before
OneIdeaMore ==
    /\ Len(ideas') = Len(ideas) + 1
    /\ \A i \in 1..Len(ideas) : ideas'[i] = ideas[i]
    /\ \A i \in 1..Len(ideas) : ideas[i].id # ideas'[Len(ideas')].id

\* C27: skip_quest on a stored quest with save_as_idea creates exactly one
\* idea, of status active and with the content title + ' - ' + description
\* (the title alone without a description), and returns it under key idea;
\* without save_as_idea it creates no idea and returns no idea key; no stored
\* idea is changed
C27_SaveAsIdea ==
    [][\A id \in LifecycleIds, action \in {"archive", "skip", "later"} :
         /\ (ret'.op = "skip_quest" /\ ~NoQuest(id) /\ SkipQuest(id, action, TRUE))
            => /\ OneIdeaMore
               /\ ideas'[Len(ideas')].status = "active"
               /\ ideas'[Len(ideas')].content =
                      SavedContent(quests[QuestIndex(quests, id)])
               /\ ret'.ok /\ "idea" \in DOMAIN ret'
               /\ ret'.idea = ideas'[Len(ideas')]
         /\ (ret'.op = "skip_quest" /\ ~NoQuest(id) /\ SkipQuest(id, action, FALSE))
            => /\ ideas' = ideas
               /\ ret'.ok /\ "idea" \notin DOMAIN ret']_vars

\* a quest with a description has been saved as the second idea
C27_Witness ==
    /\ ret.op = "skip_quest" /\ "idea" \in DOMAIN ret
    /\ Len(ideas) = 2
    /\ Len(quests) >= 1 /\ Truthy(quests[1].description)
    /\ ret.idea.content = quests[1].title \o " - " \o quests[1].description

\* ---- C28 ----
Calls == result.calls

BothReturned == Calls[1].pc = "done" /\ Calls[2].pc = "done"

\* the references of the items a call looks up
CallRefs(frame) ==
    {ItemRef(frame.op, frame.items[k]) : k \in
        {j \in 1..Len(frame.items) : ~PassedOver(frame.op, frame.items[j])}}

\* the number of items of a call that carry this reference
ItemsWithRef(frame, ref) ==
    Cardinality({k \in 1..Len(frame.items) :
                    /\ ~PassedOver(frame.op, frame.items[k])
                    /\ ItemRef(frame.op, frame.items[k]) = ref})

\* each call is handed the reference once, and no other reference
SharedKey(ref) ==
    /\ CallRefs(Calls[1]) = {ref} /\ CallRefs(Calls[2]) = {ref}
    /\ ItemsWithRef(Calls[1], ref) = 1 /\ ItemsWithRef(Calls[2], ref) = 1

\* the references the two calls are handed
HandedRefs == CallRefs(Calls[1]) \cup CallRefs(Calls[2])

\* the number of quests stored for the reference
StoredFor(ref) ==
    Cardinality({i \in 1..Len(quests) :
                    /\ quests[i].source = ItemSource(Calls[1].op)
                    /\ quests[i].source_ref = ref})

\* C28 as claimed: when two concurrent calls share a reference key, the store
\* ends with at most one quest for it and the calls together report
\* added = 1 and skipped = 1
C28_OneQuestPerKey ==
    (result.op = "concurrent_sync" /\ BothReturned) =>
        \A ref \in HandedRefs :
            SharedKey(ref) =>
                /\ StoredFor(ref) <= 1
                /\ Calls[1].added + Calls[2].added = 1
                /\ Calls[1].skipped + Calls[2].skipped = 1

\* C28 amended: the store ends with one quest for the key and the calls
\* report added = 1 and skipped = 1 when one call's existence check found the
\* quest of the other; it ends with two quests and added = 2, skipped = 0
\* when neither did
C28_QuestPerMissedCheck ==
    (result.op = "concurrent_sync" /\ BothReturned) =>
        \A ref \in HandedRefs :
            SharedKey(ref) =>
                /\ StoredFor(ref) = Calls[1].added + Calls[2].added
                /\ Calls[1].added + Calls[2].added
                      + Calls[1].skipped + Calls[2].skipped = 2
                /\ StoredFor(ref) =
                      (IF Calls[1].found \/ Calls[2].found THEN 1 ELSE 2)

\* both calls have returned, neither found the quest of the other and two
\* quests are stored for the key
C28_Witness ==
    /\ result.op = "concurrent_sync" /\ BothReturned
    /\ \E ref \in HandedRefs : SharedKey(ref) /\ StoredFor(ref) = 2
    /\ ~Calls[1].found /\ ~Calls[2].found
    /\ Calls[1].added = 1 /\ Calls[2].added = 1

\* ---- C30 ----
\* the quest that was scored, without its created_at
Undated == [f \in DOMAIN result.quest \ {"created_at"} |-> result.quest[f]]

\* what created_at adds to the score
AgeTerm ==
    result.score
        - calculate_priority_score(Undated, result.previous_source, result.now)

\* C30: for every created_at a stored quest can have, later than the scoring
\* clock included, the age term of calculate_priority_score is between 0 and
\* 10, so that the quest never scores lower than the same quest without
\* created_at
C30_AgeTermBounded ==
    (/\ Scored
     /\ "created_at" \in DOMAIN result.quest
     /\ result.quest.created_at \in CreatedTexts)
        => AgeTerm \in 0..10

====
